---------------------------- MODULE Spec2Model ----------------------------
(***************************************************************************)
(* A model of terraform-provider-docker: the compose resource (service     *)
(* ordering, network/volume provisioning, container lifecycle), the swarm  *)
(* service convergence loop and the Read operations that reconcile         *)
(* Terraform state with the remote objects.                                *)
(*                                                                         *)
(* The Docker daemon and Docker Hub are the environment: their state is    *)
(* drawn from small sets and every mutating call may fail.                 *)
(***************************************************************************)
EXTENDS Integers, Sequences, FiniteSets, TLC

VARIABLES
    plan,        \* the plan (Create/Update) or prior state (Delete) the running operation reads
    tfstate,     \* the resource as stored in Terraform state
    containers,  \* daemon: container "<project>-<s>-1" of each service name s
    networks,    \* daemon: network "<project>_<n>" of each network name n
    volumes,     \* daemon: volume "<project>_<v>" of each volume name v
    pc,          \* position of the running operation
    todo,        \* loop-local state: what is left to iterate, or the deadline of the wait
    calls,       \* the mutating daemon calls issued by the running operation, in order
    diags,       \* resp.Diagnostics of the running operation
    faults,      \* number of daemon calls that have failed so far
    orders,      \* results of the getServiceOrder invocations made so far
    clock,       \* time.Now(), in ticks
    remote       \* the remote object a Read or a convergence poll looks at

vars == <<plan, tfstate, containers, networks, volumes, pc, todo, calls,
          diags, faults, orders, clock, remote>>

(***************************************************************************)
(* Bounds                                                                  *)
(***************************************************************************)
\* how many daemon calls may fail within one operation
MaxFaults == 1

\* service, network and volume names a compose file may use, in sort.Strings order
NameOrder == <<"a", "b", "c">>
SvcNames == {NameOrder[i] : i \in 1..Len(NameOrder)}
NetNames == {"front"}
VolNames == {"data"}
DefaultNet == "default"

Null == [null |-> TRUE]

(***************************************************************************)
(* Compose files (parseComposeFile's result)                               *)
(***************************************************************************)
\* a service as parseService fills it: depends_on and networks are maps, so sets of names
ServiceConfigs(self) ==
    [DependsOn : SUBSET (SvcNames \ {self}), Networks : SUBSET NetNames]

\* the zero ServiceConfig a Go map yields for a name it does not hold
ZeroService == [DependsOn |-> {}, Networks |-> {}]

TopLevel(names) ==
    UNION {[S -> [External : BOOLEAN]] : S \in SUBSET names}

ServiceMaps ==
    UNION {{f \in [S -> [DependsOn : SUBSET SvcNames, Networks : SUBSET NetNames]] :
              \A s \in S : f[s] \in ServiceConfigs(s)} : S \in (SUBSET SvcNames) \ {{}}}

UsesDeps(p) == \E s \in DOMAIN p.Services : p.Services[s].DependsOn # {}
UsesNets(p) ==
    \/ DOMAIN p.Networks # {}
    \/ DOMAIN p.Volumes # {}
    \/ \E s \in DOMAIN p.Services : p.Services[s].Networks # {}

\* every project over the names above
AllProjects == [Services : ServiceMaps, Networks : TopLevel(NetNames), Volumes : TopLevel(VolNames)]

\* the files the model feeds to the compose resource: a file exercises dependency
\* ordering (up to three services) or network/volume provisioning (up to two), not both
Projects ==
    {p \in AllProjects :
        /\ UsesDeps(p) => ~UsesNets(p)
        /\ UsesNets(p) => DOMAIN p.Services \subseteq {NameOrder[1], NameOrder[2]}}

ServiceOf(project, name) ==
    IF name \in DOMAIN project.Services THEN project.Services[name] ELSE ZeroService

(***************************************************************************)
(* getServiceOrder                                                         *)
(***************************************************************************)
\* sort.Strings over a set of names
SortStrings(S) == SelectSeq(NameOrder, LAMBDA n : n \in S)

RECURSIVE visit(_, _, _), visitDeps(_, _, _), visitAll(_, _, _)

\* `for dep := range service.DependsOn { visit(dep) }`: Go iterates a map in an
\* unspecified order, so every order of the remaining keys is a possible run
visitDeps(project, deps, st) ==
    IF deps = {} THEN {st}
    ELSE UNION {UNION {visitDeps(project, deps \ {d}, s) : s \in visit(project, d, st)} : d \in deps}

\* the closure `visit`: st is [visited, order]; the result is the set of possible outcomes
visit(project, name, st) ==
    IF name \in st.visited THEN {st}
    ELSE LET st1 == [st EXCEPT !.visited = @ \cup {name}]
         IN {[s EXCEPT !.order = Append(@, name)] :
                s \in visitDeps(project, ServiceOf(project, name).DependsOn, st1)}

\* `for _, name := range serviceNames { visit(name) }`
visitAll(project, names, st) ==
    IF names = <<>> THEN {st}
    ELSE UNION {visitAll(project, Tail(names), s) : s \in visit(project, Head(names), st)}

\* a plausible slip: the traversal ignores depends_on and returns the sorted names
getServiceOrderNoDeps(project) == {SortStrings(DOMAIN project.Services)}

\* the orders getServiceOrder can return for a project
getServiceOrder(project) ==
    {s.order : s \in visitAll(project, SortStrings(DOMAIN project.Services),
                              [visited |-> {}, order |-> <<>>])}

(***************************************************************************)
(* Dependency graph helpers (used by the properties only)                  *)
(***************************************************************************)
RECURSIVE Reach(_, _, _)
\* the names reachable from the set S through depends_on in at most n steps
Reach(project, S, n) ==
    IF n = 0 THEN S
    ELSE Reach(project, S \cup UNION {ServiceOf(project, s).DependsOn : s \in S}, n - 1)

\* all direct and transitive dependencies of service s
TransDeps(project, s) ==
    Reach(project, ServiceOf(project, s).DependsOn, Cardinality(SvcNames))

Acyclic(project) == \A s \in DOMAIN project.Services : s \notin TransDeps(project, s)
DepsDefined(project) ==
    \A s \in DOMAIN project.Services : project.Services[s].DependsOn \subseteq DOMAIN project.Services


(***************************************************************************)
(* The daemon's objects and the diagnostics                                *)
(***************************************************************************)
NetKeys == NetNames \cup {DefaultNet}

NoContainer == [exists |-> FALSE, running |-> FALSE, labelled |-> FALSE]
NoObject == [exists |-> FALSE, labelled |-> FALSE]
\* an object created by the compose resource carries the com.docker.compose.project label
Labelled == [exists |-> TRUE, labelled |-> TRUE]
\* an object created by someone else under the same name carries no such label
Foreign == [exists |-> TRUE, labelled |-> FALSE]

NoDiags == [errors |-> {}, warnings |-> {}]
AddError(d, summary) == [d EXCEPT !.errors = @ \cup {summary}]
AddWarning(d, summary) == [d EXCEPT !.warnings = @ \cup {summary}]
HasError(d) == d.errors # {}

\* one mutating daemon call: its name, its target, whether it succeeded and, for
\* ContainerCreate, the networks of its NetworkingConfig that did not exist
Call(op, name, ok, missing) == [op |-> op, name |-> name, ok |-> ok, missing |-> missing]

\* a daemon call may fail while the fault budget lasts
MayFail(ok) == ok \/ faults < MaxFaults
Charge(ok) == IF ok THEN faults ELSE faults + 1

(***************************************************************************)
(* createNetwork, createVolume, createService                              *)
(***************************************************************************)
\* NetworkInspect succeeds exactly when the network exists; NetworkCreate may fail (ok).
\* The result is the network afterwards and whether createNetwork returned an error.
createNetwork(config, net, ok) ==
    IF config.External THEN [obj |-> net, err |-> FALSE, called |-> FALSE]
    ELSE IF net.exists THEN [obj |-> net, err |-> FALSE, called |-> FALSE]
    ELSE IF ok THEN [obj |-> Labelled, err |-> FALSE, called |-> TRUE]
    ELSE [obj |-> net, err |-> TRUE, called |-> TRUE]

createVolume(config, vol, ok) ==
    IF config.External THEN [obj |-> vol, err |-> FALSE, called |-> FALSE]
    ELSE IF vol.exists THEN [obj |-> vol, err |-> FALSE, called |-> FALSE]
    ELSE IF ok THEN [obj |-> Labelled, err |-> FALSE, called |-> TRUE]
    ELSE [obj |-> vol, err |-> TRUE, called |-> TRUE]

\* the keys of networkConfig.EndpointsConfig: the networks the service lists, each
\* prefixed with the project name, or <project>_default when it lists none
EndpointNetworks(service) ==
    IF service.Networks # {} THEN service.Networks ELSE {DefaultNet}

\* createService on the daemon state (ctrs, nets). okCreate and okStart say whether
\* ContainerCreate and ContainerStart succeed. The result is the containers
\* afterwards, the calls issued and whether createService returned an error.
createService(serviceName, service, ctrs, nets, okCreate, okStart) ==
    LET missing == {n \in EndpointNetworks(service) : ~nets[n].exists}
        created == [exists |-> TRUE, running |-> FALSE, labelled |-> TRUE]
    IN IF ctrs[serviceName].exists
       THEN \* container exists: start it
            [ctrs  |-> IF okStart THEN [ctrs EXCEPT ![serviceName].running = TRUE] ELSE ctrs,
             calls |-> <<Call("ContainerStart", serviceName, okStart, {})>>,
             err   |-> ~okStart]
       ELSE IF ~okCreate
       THEN [ctrs  |-> ctrs,
             calls |-> <<Call("ContainerCreate", serviceName, FALSE, missing)>>,
             err   |-> TRUE]
       ELSE [ctrs  |-> [ctrs EXCEPT ![serviceName] =
                            IF okStart THEN [created EXCEPT !.running = TRUE] ELSE created],
             calls |-> <<Call("ContainerCreate", serviceName, TRUE, missing),
                         Call("ContainerStart", serviceName, okStart, {})>>,
             err   |-> ~okStart]

\* The daemon starts no container whose network is missing: with a missing network
\* ContainerCreate or ContainerStart fails whatever the fault budget.
DaemonAllows(serviceName, service, ctrs, nets, okCreate, okStart) ==
    LET missing == {n \in EndpointNetworks(service) : ~nets[n].exists}
    IN /\ (~ctrs[serviceName].exists /\ missing # {}) => (~okCreate \/ ~okStart)
       /\ (okCreate /\ okStart)
          \/ (~ctrs[serviceName].exists /\ missing # {})
          \/ faults < MaxFaults
       \* a call that is never issued has no outcome to choose
       /\ ctrs[serviceName].exists => okCreate
       /\ ~okCreate => okStart

(***************************************************************************)
(* refreshStackInfo                                                        *)
(***************************************************************************)
\* ContainerList with the project label and status=running
RunningProjectContainers(ctrs) ==
    {s \in DOMAIN ctrs : ctrs[s].exists /\ ctrs[s].labelled /\ ctrs[s].running}

\* data after refreshStackInfo: running_services is len(containers) when the list
\* call succeeds (okList) and is left as it was otherwise; services is the sorted names
refreshStackInfo(data, project, ctrs, okList) ==
    [data EXCEPT
        !.RunningServices = IF okList THEN Cardinality(RunningProjectContainers(ctrs)) ELSE @,
        !.Services = IF project # Null THEN SortStrings(DOMAIN project.Services) ELSE @]

\* the model Create and Update decode from the plan; the computed attributes are unknown
Unknown == -1
PlanData(p) ==
    [ID |-> p.ID, source |-> p.source, project |-> p.project,
     RemoveOrphans |-> p.RemoveOrphans, RemoveVolumes |-> p.RemoveVolumes,
     ForceRecreate |-> p.ForceRecreate, Services |-> <<>>, RunningServices |-> Unknown]

(***************************************************************************)
(* ComposeResource.Create                                                  *)
(***************************************************************************)
\* Create up to the first loop: the null check of compose_file/compose_content and
\* parseComposeFile
CreateBegin ==
    /\ pc = "create"
    /\ IF plan.source = "null"
       THEN /\ diags' = AddError(diags, "Missing Compose Configuration")
            /\ pc' = "done"
            /\ todo' = {}
       ELSE IF plan.source = "unparsable"
       THEN /\ diags' = AddError(diags, "Compose Parse Error")
            /\ pc' = "done"
            /\ todo' = {}
       ELSE /\ diags' = diags
            /\ pc' = "create_networks"
            /\ todo' = DOMAIN plan.project.Networks
    /\ UNCHANGED <<plan, tfstate, containers, networks, volumes, calls, faults, orders, clock, remote>>

\* one iteration of `for name, netConfig := range project.Networks`
CreateNetworkStep ==
    /\ pc = "create_networks"
    /\ \E name \in todo, ok \in BOOLEAN :
        /\ MayFail(ok)
        /\ LET r == createNetwork(plan.project.Networks[name], networks[name], ok)
           IN /\ r.called \/ ok
              /\ networks' = [networks EXCEPT ![name] = r.obj]
              /\ faults' = Charge(ok)
              /\ calls' = IF r.called THEN Append(calls, Call("NetworkCreate", name, ok, {})) ELSE calls
              /\ IF r.err
                 THEN /\ diags' = AddError(diags, "Network Create Error")
                      /\ pc' = "done"
                      /\ todo' = {}
                 ELSE /\ diags' = diags
                      /\ pc' = pc
                      /\ todo' = todo \ {name}
    /\ UNCHANGED <<plan, tfstate, containers, volumes, orders, clock, remote>>

\* the network loop is over: on to `for name, volConfig := range project.Volumes`
CreateNetworksDone ==
    /\ pc = "create_networks"
    /\ todo = {}
    /\ pc' = "create_volumes"
    /\ todo' = DOMAIN plan.project.Volumes
    /\ UNCHANGED <<plan, tfstate, containers, networks, volumes, calls, diags, faults, orders, clock, remote>>

CreateVolumeStep ==
    /\ pc = "create_volumes"
    /\ \E name \in todo, ok \in BOOLEAN :
        /\ MayFail(ok)
        /\ LET r == createVolume(plan.project.Volumes[name], volumes[name], ok)
           IN /\ r.called \/ ok
              /\ volumes' = [volumes EXCEPT ![name] = r.obj]
              /\ faults' = Charge(ok)
              /\ calls' = IF r.called THEN Append(calls, Call("VolumeCreate", name, ok, {})) ELSE calls
              /\ IF r.err
                 THEN /\ diags' = AddError(diags, "Volume Create Error")
                      /\ pc' = "done"
                      /\ todo' = {}
                 ELSE /\ diags' = diags
                      /\ pc' = pc
                      /\ todo' = todo \ {name}
    /\ UNCHANGED <<plan, tfstate, containers, networks, orders, clock, remote>>

\* the volume loop is over: serviceOrder := r.getServiceOrder(project)
CreateVolumesDone ==
    /\ pc = "create_volumes"
    /\ todo = {}
    /\ \E order \in getServiceOrder(plan.project) :
        /\ todo' = order
        /\ orders' = Append(orders, order)
    /\ pc' = "create_services"
    /\ UNCHANGED <<plan, tfstate, containers, networks, volumes, calls, diags, faults, clock, remote>>

\* one iteration of `for _, serviceName := range serviceOrder`
CreateServiceStep ==
    /\ pc = "create_services"
    /\ todo # <<>>
    /\ LET serviceName == Head(todo)
           service == ServiceOf(plan.project, serviceName)
       IN \E okCreate, okStart \in BOOLEAN :
            /\ DaemonAllows(serviceName, service, containers, networks, okCreate, okStart)
            /\ LET r == createService(serviceName, service, containers, networks, okCreate, okStart)
               IN /\ containers' = r.ctrs
                  /\ calls' = calls \o r.calls
                  /\ faults' = Charge(~r.err)
                  /\ IF r.err
                     THEN /\ diags' = AddError(diags, "Service Create Error")
                          /\ pc' = "done"
                          /\ todo' = <<>>
                     ELSE /\ diags' = diags
                          /\ pc' = pc
                          /\ todo' = Tail(todo)
    /\ UNCHANGED <<plan, tfstate, networks, volumes, orders, clock, remote>>

\* the service loop is over: data.ID, refreshStackInfo and resp.State.Set
CreateFinish ==
    /\ pc = "create_services"
    /\ todo = <<>>
    /\ \E okList \in BOOLEAN :
        /\ MayFail(okList)
        /\ faults' = Charge(okList)
        /\ tfstate' = refreshStackInfo([PlanData(plan) EXCEPT !.ID = "p"], plan.project, containers, okList)
    /\ pc' = "done"
    /\ todo' = {}
    /\ UNCHANGED <<plan, containers, networks, volumes, calls, diags, orders, clock, remote>>

CreateNext ==
    \/ CreateBegin
    \/ CreateNetworkStep
    \/ CreateNetworksDone
    \/ CreateVolumeStep
    \/ CreateVolumesDone
    \/ CreateServiceStep
    \/ CreateFinish

\* the plans compose Create is run on; the three flags carry the schema defaults
CreatePlans ==
    {[ID |-> "unknown", source |-> "content", project |-> p, RemoveOrphans |-> TRUE,
      RemoveVolumes |-> FALSE, ForceRecreate |-> FALSE] : p \in Projects}
    \cup {[ID |-> "unknown", source |-> src, project |-> Null, RemoveOrphans |-> TRUE,
           RemoveVolumes |-> FALSE, ForceRecreate |-> FALSE] : src \in {"null", "unparsable"}}

\* the daemon before Create: containers left stopped by an earlier run, and networks
\* and volumes of the same names made by someone else
CreateInit ==
    /\ plan \in CreatePlans
    /\ tfstate = Null
    /\ containers \in [SvcNames -> {NoContainer, [exists |-> TRUE, running |-> FALSE, labelled |-> TRUE]}]
    /\ networks \in [NetKeys -> {NoObject, Foreign}]
    /\ volumes \in [VolNames -> {NoObject, Foreign}]
    /\ pc = "create"
    /\ todo = {}
    /\ calls = <<>>
    /\ diags = NoDiags
    /\ faults = 0
    /\ orders = <<>>
    /\ clock = 0
    /\ remote = Null

SpecCreate == CreateInit /\ [][CreateNext]_vars

(***************************************************************************)
(* removeProjectContainers, removeOrphanContainers, removeProjectNetworks, *)
(* removeProjectVolumes                                                    *)
(***************************************************************************)
\* ContainerList with All: true and the project label
ProjectContainers(ctrs) == {s \in DOMAIN ctrs : ctrs[s].exists /\ ctrs[s].labelled}

RECURSIVE StopAndRemoveCalls(_, _)
\* `_ = ContainerStop(...); _ = ContainerRemove(..., Force: true)` for each listed
\* container; the calls on the containers in `failed` fail, and nobody looks
StopAndRemoveCalls(names, failed) ==
    IF names = <<>> THEN <<>>
    ELSE <<Call("ContainerStop", Head(names), Head(names) \notin failed, {}),
           Call("ContainerRemove", Head(names), Head(names) \notin failed, {})>>
         \o StopAndRemoveCalls(Tail(names), failed)

RECURSIVE RemoveCalls(_, _, _)
RemoveCalls(op, names, failed) ==
    IF names = <<>> THEN <<>>
    ELSE <<Call(op, Head(names), Head(names) \notin failed, {})>> \o RemoveCalls(op, Tail(names), failed)

\* a container that was removed; one whose ContainerRemove failed stays
AfterRemove(ctrs, listed, failed) ==
    [s \in DOMAIN ctrs |-> IF s \in listed \ failed THEN NoContainer ELSE ctrs[s]]

\* removeProjectContainers: nothing happens when the list call fails (okList)
removeProjectContainers(ctrs, okList, failed) ==
    LET listed == IF okList THEN ProjectContainers(ctrs) ELSE {}
    IN [ctrs |-> AfterRemove(ctrs, listed, failed),
        calls |-> StopAndRemoveCalls(SortStrings(listed), failed)]

\* the listed containers whose com.docker.compose.service label names no service of the project
Orphans(project, ctrs) == {s \in ProjectContainers(ctrs) : s \notin DOMAIN project.Services}

removeOrphanContainers(project, ctrs, okList, failed) ==
    LET listed == IF okList THEN Orphans(project, ctrs) ELSE {}
    IN [ctrs |-> AfterRemove(ctrs, listed, failed),
        calls |-> StopAndRemoveCalls(SortStrings(listed), failed)]

\* NetworkList / VolumeList with the project label
ProjectObjects(objs) == {n \in DOMAIN objs : objs[n].exists /\ objs[n].labelled}

\* removeProjectNetworks and removeProjectVolumes: the names are listed in the order
\* given by `names`; a failed removal is ignored
removeProjectObjects(op, objs, names, okList, failed) ==
    LET listed == IF okList THEN ProjectObjects(objs) ELSE {}
    IN [objs |-> [n \in DOMAIN objs |-> IF n \in listed \ failed THEN NoObject ELSE objs[n]],
        calls |-> RemoveCalls(op, SelectSeq(names, LAMBDA n : n \in listed), failed)]

NetKeyOrder == <<"default", "front">>
VolKeyOrder == <<"data">>

\* the list call and the removals that fail, within the fault budget
FaultChoice(okList, failed, candidates) ==
    /\ failed \subseteq (IF okList THEN candidates ELSE {})
    /\ Cardinality(failed) + (IF okList THEN 0 ELSE 1) <= MaxFaults - faults

(***************************************************************************)
(* ComposeResource.Update                                                  *)
(***************************************************************************)
\* a plausible slip: no return after the parse error, so the plan is stored
UpdateBeginNoReturn ==
    /\ pc = "update"
    /\ IF plan.source # "content"
       THEN /\ diags' = AddError(diags, "Compose Parse Error")
            /\ tfstate' = [tfstate EXCEPT !.source = plan.source]
            /\ pc' = "done"
            /\ todo' = {}
       ELSE /\ diags' = diags
            /\ tfstate' = tfstate
            /\ pc' = "update_networks"
            /\ todo' = DOMAIN plan.project.Networks
    /\ UNCHANGED <<plan, containers, networks, volumes, calls, faults, orders, clock, remote>>

\* Update up to the first loop: parseComposeFile on the plan
UpdateBegin ==
    /\ pc = "update"
    /\ IF plan.source # "content"
       THEN /\ diags' = AddError(diags, "Compose Parse Error")
            /\ pc' = "done"
            /\ todo' = {}
       ELSE /\ diags' = diags
            /\ pc' = "update_networks"
            /\ todo' = DOMAIN plan.project.Networks
    /\ UNCHANGED <<plan, tfstate, containers, networks, volumes, calls, faults, orders, clock, remote>>

\* one iteration of the network loop: an error of createNetwork is logged and ignored
UpdateNetworkStep ==
    /\ pc = "update_networks"
    /\ \E name \in todo, ok \in BOOLEAN :
        /\ MayFail(ok)
        /\ LET r == createNetwork(plan.project.Networks[name], networks[name], ok)
           IN /\ r.called \/ ok
              /\ networks' = [networks EXCEPT ![name] = r.obj]
              /\ faults' = Charge(ok)
              /\ calls' = IF r.called THEN Append(calls, Call("NetworkCreate", name, ok, {})) ELSE calls
              /\ todo' = todo \ {name}
    /\ UNCHANGED <<plan, tfstate, containers, volumes, pc, diags, orders, clock, remote>>

UpdateNetworksDone ==
    /\ pc = "update_networks"
    /\ todo = {}
    /\ pc' = "update_volumes"
    /\ todo' = DOMAIN plan.project.Volumes
    /\ UNCHANGED <<plan, tfstate, containers, networks, volumes, calls, diags, faults, orders, clock, remote>>

UpdateVolumeStep ==
    /\ pc = "update_volumes"
    /\ \E name \in todo, ok \in BOOLEAN :
        /\ MayFail(ok)
        /\ LET r == createVolume(plan.project.Volumes[name], volumes[name], ok)
           IN /\ r.called \/ ok
              /\ volumes' = [volumes EXCEPT ![name] = r.obj]
              /\ faults' = Charge(ok)
              /\ calls' = IF r.called THEN Append(calls, Call("VolumeCreate", name, ok, {})) ELSE calls
              /\ todo' = todo \ {name}
    /\ UNCHANGED <<plan, tfstate, containers, networks, pc, diags, orders, clock, remote>>

\* the volume loop is over and force_recreate is set: removeProjectContainers and
\* serviceOrder := r.getServiceOrder(project)
UpdateRecreateBegin ==
    /\ pc = "update_volumes"
    /\ todo = {}
    /\ plan.ForceRecreate
    /\ \E okList \in BOOLEAN, failed \in SUBSET SvcNames :
        /\ FaultChoice(okList, failed, ProjectContainers(containers))
        /\ LET r == removeProjectContainers(containers, okList, failed)
           IN /\ containers' = r.ctrs
              /\ calls' = calls \o r.calls
        /\ faults' = faults + Cardinality(failed) + (IF okList THEN 0 ELSE 1)
    /\ \E order \in getServiceOrder(plan.project) :
        /\ todo' = order
        /\ orders' = Append(orders, order)
    /\ pc' = "update_services"
    /\ UNCHANGED <<plan, tfstate, networks, volumes, diags, clock, remote>>

\* the volume loop is over and force_recreate is not set: no container is touched
UpdateNoRecreate ==
    /\ pc = "update_volumes"
    /\ todo = {}
    /\ ~plan.ForceRecreate
    /\ pc' = "update_orphans"
    /\ UNCHANGED <<plan, tfstate, containers, networks, volumes, todo, calls, diags, faults, orders, clock, remote>>

\* one iteration of the recreate loop
UpdateServiceStep ==
    /\ pc = "update_services"
    /\ todo # <<>>
    /\ LET serviceName == Head(todo)
           service == ServiceOf(plan.project, serviceName)
       IN \E okCreate, okStart \in BOOLEAN :
            /\ DaemonAllows(serviceName, service, containers, networks, okCreate, okStart)
            /\ LET r == createService(serviceName, service, containers, networks, okCreate, okStart)
               IN /\ containers' = r.ctrs
                  /\ calls' = calls \o r.calls
                  /\ faults' = Charge(~r.err)
                  /\ IF r.err
                     THEN /\ diags' = AddError(diags, "Service Create Error")
                          /\ pc' = "done"
                          /\ todo' = <<>>
                     ELSE /\ diags' = diags
                          /\ pc' = pc
                          /\ todo' = Tail(todo)
    /\ UNCHANGED <<plan, tfstate, networks, volumes, orders, clock, remote>>

\* the recreate loop is over
UpdateServicesDone ==
    /\ pc = "update_services"
    /\ todo = <<>>
    /\ pc' = "update_orphans"
    /\ UNCHANGED <<plan, tfstate, containers, networks, volumes, todo, calls, diags, faults, orders, clock, remote>>

\* `if data.RemoveOrphans.ValueBool() { removeOrphanContainers }`, refreshStackInfo
\* and resp.State.Set
UpdateFinish ==
    /\ pc = "update_orphans"
    /\ \E okOrphans, okList \in BOOLEAN, failed \in SUBSET SvcNames :
        /\ ~plan.RemoveOrphans => (okOrphans /\ failed = {})
        /\ FaultChoice(okOrphans, failed, Orphans(plan.project, containers))
        /\ okList \/ faults + Cardinality(failed) + (IF okOrphans THEN 0 ELSE 1) < MaxFaults
        /\ LET r == IF plan.RemoveOrphans
                    THEN removeOrphanContainers(plan.project, containers, okOrphans, failed)
                    ELSE [ctrs |-> containers, calls |-> <<>>]
           IN /\ containers' = r.ctrs
              /\ calls' = calls \o r.calls
              /\ tfstate' = refreshStackInfo(PlanData(plan), plan.project, r.ctrs, okList)
        /\ faults' = faults + Cardinality(failed) + (IF okOrphans THEN 0 ELSE 1)
                            + (IF okList THEN 0 ELSE 1)
    /\ pc' = "done"
    /\ todo' = {}
    /\ UNCHANGED <<plan, networks, volumes, diags, orders, clock, remote>>

UpdateNext ==
    \/ UpdateBegin
    \/ UpdateNetworkStep
    \/ UpdateNetworksDone
    \/ UpdateVolumeStep
    \/ UpdateRecreateBegin
    \/ UpdateNoRecreate
    \/ UpdateServiceStep
    \/ UpdateServicesDone
    \/ UpdateFinish

\* a file of services without depends_on, networks or volumes
PlainProject(S) ==
    [Services |-> [s \in S |-> ZeroService], Networks |-> <<>>, Volumes |-> <<>>]

\* what an earlier Create of the file p stored, with n containers running
StoredState(p, removeVolumes, n) ==
    [ID |-> "p", source |-> "content", project |-> p, RemoveOrphans |-> TRUE,
     RemoveVolumes |-> removeVolumes, ForceRecreate |-> FALSE,
     Services |-> SortStrings(DOMAIN p.Services), RunningServices |-> n]

\* the plans compose Update and Delete are run on: files without depends_on
PlainProjects == {p \in Projects : ~UsesDeps(p)}

UpdatePlans ==
    {[ID |-> "p", source |-> "content", project |-> p, RemoveOrphans |-> ro,
      RemoveVolumes |-> FALSE, ForceRecreate |-> fr] :
        p \in PlainProjects, ro \in BOOLEAN, fr \in BOOLEAN}
    \cup {[ID |-> "p", source |-> src, project |-> Null, RemoveOrphans |-> TRUE,
           RemoveVolumes |-> FALSE, ForceRecreate |-> FALSE] : src \in {"null", "unparsable"}}

RunningContainer == [exists |-> TRUE, running |-> TRUE, labelled |-> TRUE]

\* Before Update: the containers an earlier Create of the prior file made, some of
\* them removed since; the default network exists only if someone else made it
UpdateInit ==
    /\ plan \in UpdatePlans
    /\ \E S \in (SUBSET SvcNames) \ {{}} :
        /\ tfstate = StoredState(PlainProject(S), FALSE, Cardinality(S))
        /\ containers \in [SvcNames -> {NoContainer, RunningContainer}]
        /\ \A s \in SvcNames \ S : containers[s] = NoContainer
    /\ networks \in [NetKeys -> {NoObject, Foreign}]
    /\ networks["front"] = NoObject
    /\ volumes = [v \in VolNames |-> NoObject]
    /\ pc = "update"
    /\ todo = {}
    /\ calls = <<>>
    /\ diags = NoDiags
    /\ faults = 0
    /\ orders = <<>>
    /\ clock = 0
    /\ remote = Null

SpecUpdate == UpdateInit /\ [][UpdateNext]_vars

(***************************************************************************)
(* ComposeResource.Delete                                                  *)
(***************************************************************************)
\* removeProjectContainers
DeleteContainers ==
    /\ pc = "delete"
    /\ \E okList \in BOOLEAN, failed \in SUBSET SvcNames :
        /\ FaultChoice(okList, failed, ProjectContainers(containers))
        /\ LET r == removeProjectContainers(containers, okList, failed)
           IN /\ containers' = r.ctrs
              /\ calls' = calls \o r.calls
        /\ faults' = faults + Cardinality(failed) + (IF okList THEN 0 ELSE 1)
    /\ pc' = "delete_networks"
    /\ UNCHANGED <<plan, tfstate, networks, volumes, todo, diags, orders, clock, remote>>

\* removeProjectNetworks
DeleteNetworks ==
    /\ pc = "delete_networks"
    /\ \E okList \in BOOLEAN, failed \in SUBSET NetKeys :
        /\ FaultChoice(okList, failed, ProjectObjects(networks))
        /\ LET r == removeProjectObjects("NetworkRemove", networks, NetKeyOrder, okList, failed)
           IN /\ networks' = r.objs
              /\ calls' = calls \o r.calls
        /\ faults' = faults + Cardinality(failed) + (IF okList THEN 0 ELSE 1)
    /\ pc' = "delete_volumes"
    /\ UNCHANGED <<plan, tfstate, containers, volumes, todo, diags, orders, clock, remote>>

\* `if data.RemoveVolumes.ValueBool() { removeProjectVolumes }`; Delete returns without
\* an error, so the framework drops the resource from state
DeleteVolumes ==
    /\ pc = "delete_volumes"
    /\ \E okList \in BOOLEAN, failed \in SUBSET VolNames :
        /\ ~plan.RemoveVolumes => (okList /\ failed = {})
        /\ FaultChoice(okList, failed, ProjectObjects(volumes))
        /\ LET r == IF plan.RemoveVolumes
                    THEN removeProjectObjects("VolumeRemove", volumes, VolKeyOrder, okList, failed)
                    ELSE [objs |-> volumes, calls |-> <<>>]
           IN /\ volumes' = r.objs
              /\ calls' = calls \o r.calls
        /\ faults' = faults + Cardinality(failed) + (IF okList THEN 0 ELSE 1)
    /\ tfstate' = Null
    /\ pc' = "done"
    /\ UNCHANGED <<plan, containers, networks, todo, diags, orders, clock, remote>>

DeleteNext ==
    \/ DeleteContainers
    \/ DeleteNetworks
    \/ DeleteVolumes

\* Before Delete: the state an earlier Create or Update stored, and a daemon holding
\* the project's objects (labelled), objects of the same names made by someone else
\* (which createNetwork and createVolume adopt), or neither
DeleteInit ==
    /\ \E p \in PlainProjects, rv \in BOOLEAN :
        /\ tfstate = StoredState(p, rv, Cardinality(DOMAIN p.Services))
        /\ plan = tfstate
        /\ containers \in [SvcNames -> {NoContainer, RunningContainer}]
        /\ \A s \in SvcNames \ DOMAIN p.Services : containers[s] = NoContainer
    /\ networks \in [NetKeys -> {NoObject, Labelled, Foreign}]
    /\ networks[DefaultNet] # Labelled
    /\ volumes \in [VolNames -> {NoObject, Labelled, Foreign}]
    /\ pc = "delete"
    /\ todo = {}
    /\ calls = <<>>
    /\ diags = NoDiags
    /\ faults = 0
    /\ orders = <<>>
    /\ clock = 0
    /\ remote = Null

SpecDelete == DeleteInit /\ [][DeleteNext]_vars

(***************************************************************************)
(* Repeated invocations of getServiceOrder on one project                  *)
(***************************************************************************)
\* how many times getServiceOrder is invoked on the same project
MaxInvocations == 2

InvokeGetServiceOrder ==
    /\ pc = "order"
    /\ Len(orders) < MaxInvocations
    /\ \E order \in getServiceOrder(plan.project) : orders' = Append(orders, order)
    /\ UNCHANGED <<plan, tfstate, containers, networks, volumes, pc, todo, calls, diags, faults, clock, remote>>

OrderInit ==
    /\ plan \in {q \in CreatePlans : q.source = "content"}
    /\ tfstate = Null
    /\ containers = [s \in SvcNames |-> NoContainer]
    /\ networks = [n \in NetKeys |-> NoObject]
    /\ volumes = [v \in VolNames |-> NoObject]
    /\ pc = "order"
    /\ todo = {}
    /\ calls = <<>>
    /\ diags = NoDiags
    /\ faults = 0
    /\ orders = <<>>
    /\ clock = 0
    /\ remote = Null

SpecOrder == OrderInit /\ [][InvokeGetServiceOrder]_vars

(***************************************************************************)
(* ServiceResource.Create, Update and waitForConvergence                   *)
(***************************************************************************)
\* converge_config delay and timeout as time.ParseDuration returns them, in ticks
\* (0 also stands for a string that does not parse); one inspect call takes at
\* least one tick and at most MaxLatency
MaxDelay == 2
MaxTimeout == 3
MaxLatency == 2

\* what one ServiceInspectWithRaw in the loop yields: an error, a service without
\* UpdateStatus, or a service in one of swarm's update states
UpdateStates ==
    {"updating", "paused", "completed", "rollback_started", "rollback_paused", "rollback_completed"}
InspectResults == {"error", "none"} \cup UpdateStates

\* the body of the polling loop after the inspect: return as converged, return with
\* the paused warning, or sleep and poll again
pollOutcome(r) ==
    IF r = "error" THEN "continue"
    ELSE IF r = "none" \/ r = "completed" THEN "converged"
    ELSE IF r = "paused" THEN "paused"
    ELSE "continue"

\* a plausible slip: the timeout is reported with AddError
timeoutDiagnosticsAsError(d) == AddError(d, "Service Convergence Timeout")

\* the diagnostics after the loop ran into the deadline
timeoutDiagnostics(d) == AddWarning(d, "Service Convergence Timeout")

\* a plausible slip: the loop condition never turns false
BeforeAlways(now, deadline) == TRUE

\* time.Now().Before(deadline)
Before(now, deadline) == now < deadline

ServiceID == "svc"
ServiceData(p) == [ID |-> ServiceID, converge |-> p.converge]

\* where Create and Update go after the daemon accepted the service: into
\* waitForConvergence when converge_config holds a block, else straight to State.Set
AfterServiceCall ==
    IF plan.converge # Null
    THEN /\ pc' = "converge"
         /\ todo' = [deadline |-> clock + plan.converge.timeout, outcome |-> "polling"]
         /\ tfstate' = tfstate
    ELSE /\ pc' = "done"
         /\ todo' = [deadline |-> clock, outcome |-> "none"]
         /\ tfstate' = ServiceData(plan)

\* ServiceResource.Create up to the wait: ServiceCreate
ServiceCreateCall ==
    /\ pc = "svc_create"
    /\ \E ok \in BOOLEAN :
        /\ MayFail(ok)
        /\ faults' = Charge(ok)
        /\ calls' = Append(calls, Call("ServiceCreate", ServiceID, ok, {}))
        /\ IF ok
           THEN /\ diags' = diags
                /\ AfterServiceCall
           ELSE /\ diags' = AddError(diags, "Docker Service Creation Failed")
                /\ pc' = "done"
                /\ UNCHANGED <<todo, tfstate>>
    /\ UNCHANGED <<plan, containers, networks, volumes, orders, clock, remote>>

\* ServiceResource.Update up to the wait: ServiceInspectWithRaw for the version, then
\* ServiceUpdate
ServiceUpdateCall ==
    /\ pc = "svc_update"
    /\ \E okInspect, okUpdate \in BOOLEAN :
        /\ MayFail(okInspect /\ okUpdate)
        /\ okInspect \/ okUpdate
        /\ faults' = Charge(okInspect /\ okUpdate)
        /\ calls' = IF okInspect
                    THEN Append(calls, Call("ServiceUpdate", ServiceID, okUpdate, {}))
                    ELSE calls
        /\ IF okInspect /\ okUpdate
           THEN /\ diags' = diags
                /\ AfterServiceCall
           ELSE /\ diags' = AddError(diags, "Docker Service Update Failed")
                /\ pc' = "done"
                /\ UNCHANGED <<todo, tfstate>>
    /\ UNCHANGED <<plan, containers, networks, volumes, orders, clock, remote>>

\* one iteration of `for time.Now().Before(deadline)`: the inspect, whose result the
\* daemon chooses, and what follows it; State.Set follows a return
ConvergePoll ==
    /\ pc = "converge"
    /\ Before(clock, todo.deadline)
    /\ \E r \in InspectResults, latency \in 1..MaxLatency :
        /\ remote' = r
        /\ calls' = Append(calls, Call("ServiceInspect", r, r # "error", {}))
        /\ IF pollOutcome(r) = "continue"
           THEN /\ clock' = clock + latency + plan.converge.delay
                /\ UNCHANGED <<pc, todo, diags, tfstate>>
           ELSE /\ clock' = clock + latency
                /\ pc' = "done"
                /\ todo' = [todo EXCEPT !.outcome = pollOutcome(r)]
                /\ diags' = IF pollOutcome(r) = "paused"
                            THEN AddWarning(diags, "Service Update Paused")
                            ELSE diags
                /\ tfstate' = ServiceData(plan)
    /\ UNCHANGED <<plan, containers, networks, volumes, faults, orders>>

\* the loop condition fails: the warning after the loop, then State.Set
ConvergeTimeout ==
    /\ pc = "converge"
    /\ ~Before(clock, todo.deadline)
    /\ diags' = timeoutDiagnostics(diags)
    /\ todo' = [todo EXCEPT !.outcome = "timeout"]
    /\ pc' = "done"
    /\ tfstate' = ServiceData(plan)
    /\ UNCHANGED <<plan, containers, networks, volumes, calls, faults, orders, clock, remote>>

ServiceNext ==
    \/ ServiceCreateCall
    \/ ServiceUpdateCall
    \/ ConvergePoll
    \/ ConvergeTimeout

ConvergeConfigs ==
    {Null} \cup [delay : 0..MaxDelay, timeout : 0..MaxTimeout]

ServiceInit ==
    /\ \E op \in {"svc_create", "svc_update"}, cc \in ConvergeConfigs :
        /\ pc = op
        /\ plan = [converge |-> cc]
        /\ tfstate = IF op = "svc_create" THEN Null ELSE [ID |-> ServiceID, converge |-> Null]
    /\ containers = [s \in SvcNames |-> NoContainer]
    /\ networks = [n \in NetKeys |-> NoObject]
    /\ volumes = [v \in VolNames |-> NoObject]
    /\ todo = [deadline |-> 0, outcome |-> "none"]
    /\ calls = <<>>
    /\ diags = NoDiags
    /\ faults = 0
    /\ orders = <<>>
    /\ clock = 0
    /\ remote = "none"

SpecService == ServiceInit /\ [][ServiceNext]_vars

\* the handler runs to its end: a call that was issued returns and the code after it
\* is executed
SpecServiceFair == SpecService /\ WF_vars(ServiceNext)

(***************************************************************************)
(* The Read operations of the registered resources                         *)
(***************************************************************************)
\* the resources of DockerProvider.Resources, by type name without the provider prefix
EngineKinds ==
    {"image", "network", "volume", "container", "secret", "config", "service", "tag",
     "registry_image"}
HubKinds ==
    {"hub_repository", "hub_repository_team_permission", "org_team", "org_member",
     "org_team_member", "access_token"}
Kinds == EngineKinds \cup HubKinds \cup {"compose"}

\* the resources whose model holds a labels map
LabelKinds == {"service", "secret", "config", "network", "volume"}

\* label maps and the values of the attributes a Read copies from the remote object
LabelMaps == SUBSET {"env=prod", "team=a"}
AttrValues == {"v1", "v2"}

\* err.Error() is a sequence of words; NoErr is a nil error
NoErr == <<>>

\* strings.Contains
Contains(s, substr) ==
    \E i \in 0..(Len(s) - Len(substr)) : \A k \in 1..Len(substr) : s[i + k] = substr[k]

\* the texts an Engine API lookup may fail with when the object is gone; the daemon
\* and the client library, not this repository, choose the wording
ObjectWords == {"container", "image", "network", "volume", "service", "secret", "config"}
FromDaemon(text) == <<"Error", "response", "from", "daemon", ":">> \o text
DaemonErrors ==
    {FromDaemon(<<"No", "such", w, ":", "x">>) : w \in ObjectWords}
    \cup {FromDaemon(<<w, "x", "not", "found">>) : w \in ObjectWords}
    \cup {FromDaemon(<<w, "not", "found", ":", "x">>) : w \in ObjectWords}
    \cup {FromDaemon(<<"get", "x", ":", "no", "such", "volume">>)}
ConnectionError == <<"Cannot", "connect", "to", "the", "Docker", "daemon">>

\* what an inspect call returns for the remote object r
EngineReplies(r) ==
    IF r.exists
    THEN {[err |-> NoErr, obj |-> r], [err |-> ConnectionError, obj |-> r]}
    ELSE {[err |-> e, obj |-> r] : e \in DaemonErrors \cup {ConnectionError}}

\* resp.Status of the Hub API's answers
StatusText(status) ==
    CASE status = 404 -> <<"404", "Not", "Found">>
      [] status = 500 -> <<"500", "Internal", "Server", "Error">>
      [] OTHER -> <<"200", "OK">>

\* the error doRequest returns: the transport's error when no response arrived
\* (status 0), "API error: <status> - <body>" for a status of 400 or more, else nil
doRequest(status) ==
    IF status = 0 THEN <<"dial", "tcp", ":", "connection", "refused">>
    ELSE IF status >= 400 THEN <<"API", "error", ":">> \o StatusText(status) \o <<"-", "body">>
    ELSE NoErr

\* the answers of the Hub API to the GET for the remote object r
HubStatuses(r) == IF r.exists THEN {200, 500, 0} ELSE {404, 500, 0}

\* GetRepository, GetRepositoryTeamPermission, GetTeam, GetOrgMember, GetAccessToken
HubReplies(r) == {[err |-> doRequest(s), obj |-> r] : s \in HubStatuses(r)}

\* ListTeamMembers: the team's members, or the error of the request; a membership is
\* gone when the user left the team (200) or when the team itself is gone (404)
ListTeamMembers(r) ==
    {[err |-> doRequest(s), members |-> IF r.exists THEN {"user"} ELSE {}] :
        s \in HubStatuses(r) \cup {200}}

\* IsTeamMember
IsTeamMember(list, username) ==
    IF list.err # NoErr
    THEN [err |-> list.err, obj |-> FALSE]
    ELSE [err |-> NoErr, obj |-> username \in list.members]

\* no lookup was made
NoReply == [err |-> NoErr, obj |-> Null]

\* the three ways a Read returns
removeResource == [state |-> Null, diags |-> NoDiags]
readFailed(data, summary) == [state |-> data, diags |-> AddError(NoDiags, summary)]
stateSet(data) == [state |-> data, diags |-> NoDiags]

\* `if len(x.Labels) > 0 { data.Labels = labels }`
refreshLabels(data, labels) ==
    IF Cardinality(labels) > 0 THEN [data EXCEPT !.labels = labels] ELSE data

refreshAttrs(data, obj) == [data EXCEPT !.attrs = obj.attrs]

ImageResourceRead(data, reply) ==
    IF reply.err # NoErr
    THEN IF Contains(reply.err, <<"No", "such", "image">>)
         THEN removeResource
         ELSE readFailed(data, "Image Read Error")
    ELSE stateSet(refreshAttrs(data, reply.obj))

TagResourceRead(data, reply) ==
    IF reply.err # NoErr
    THEN IF Contains(reply.err, <<"No", "such", "image">>)
         THEN removeResource
         ELSE readFailed(data, "Docker Image Read Failed")
    ELSE stateSet(refreshAttrs(data, reply.obj))

\* on "No such image" Read returns without touching the response state, which the
\* framework has filled with the prior state
RegistryImageResourceRead(data, reply) ==
    IF reply.err # NoErr
    THEN IF Contains(reply.err, <<"No", "such", "image">>)
         THEN stateSet(data)
         ELSE readFailed(data, "Docker Image Read Failed")
    ELSE stateSet(refreshAttrs(data, reply.obj))

\* a plausible slip: only the daemon's "No such container" wording is tested
ContainerResourceReadNoSuchOnly(data, reply) ==
    IF reply.err # NoErr
    THEN IF Contains(reply.err, <<"No", "such", "container">>)
         THEN removeResource
         ELSE readFailed(data, "Container Read Error")
    ELSE stateSet(refreshAttrs(data, reply.obj))

ContainerResourceRead(data, reply) ==
    IF reply.err # NoErr
    THEN IF \/ Contains(reply.err, <<"No", "such", "container">>)
            \/ Contains(reply.err, <<"not", "found">>)
         THEN removeResource
         ELSE readFailed(data, "Container Read Error")
    ELSE stateSet(refreshAttrs(data, reply.obj))

NetworkResourceRead(data, reply) ==
    IF reply.err # NoErr
    THEN IF \/ Contains(reply.err, <<"not", "found">>)
            \/ Contains(reply.err, <<"No", "such", "network">>)
         THEN removeResource
         ELSE readFailed(data, "Network Read Error")
    ELSE stateSet(refreshLabels(refreshAttrs(data, reply.obj), reply.obj.labels))

VolumeResourceRead(data, reply) ==
    IF reply.err # NoErr
    THEN IF \/ Contains(reply.err, <<"no", "such", "volume">>)
            \/ Contains(reply.err, <<"not", "found">>)
         THEN removeResource
         ELSE readFailed(data, "Volume Read Error")
    ELSE stateSet(refreshLabels(refreshAttrs(data, reply.obj), reply.obj.labels))

SecretResourceRead(data, reply) ==
    IF reply.err # NoErr
    THEN IF \/ Contains(reply.err, <<"No", "such", "secret">>)
            \/ Contains(reply.err, <<"secret", "not", "found">>)
         THEN removeResource
         ELSE readFailed(data, "Docker Secret Read Failed")
    ELSE stateSet(refreshLabels(refreshAttrs(data, reply.obj), reply.obj.labels))

ConfigResourceRead(data, reply) ==
    IF reply.err # NoErr
    THEN IF \/ Contains(reply.err, <<"No", "such", "config">>)
            \/ Contains(reply.err, <<"config", "not", "found">>)
         THEN removeResource
         ELSE readFailed(data, "Docker Config Read Failed")
    ELSE stateSet(refreshLabels(refreshAttrs(data, reply.obj), reply.obj.labels))

ServiceResourceRead(data, reply) ==
    IF reply.err # NoErr
    THEN IF \/ Contains(reply.err, <<"No", "such", "service">>)
            \/ Contains(reply.err, <<"service", "not", "found">>)
         THEN removeResource
         ELSE readFailed(data, "Docker Service Read Failed")
    ELSE stateSet(refreshLabels(refreshAttrs(data, reply.obj), reply.obj.labels))

\* the Read shared, up to the summary of its error, by HubRepositoryResource,
\* HubRepositoryTeamPermissionResource, OrgTeamResource, OrgMemberResource and
\* AccessTokenResource
HubResourceRead(hubClient, data, reply, summary) ==
    IF ~hubClient THEN readFailed(data, "Docker Hub Not Configured")
    ELSE IF reply.err # NoErr
    THEN IF \/ Contains(reply.err, <<"404">>)
            \/ Contains(reply.err, <<"not", "found">>)
         THEN removeResource
         ELSE readFailed(data, summary)
    ELSE stateSet(refreshAttrs(data, reply.obj))

HubRepositoryResourceRead(hubClient, data, reply) ==
    HubResourceRead(hubClient, data, reply, "Docker Hub Repository Read Failed")

HubRepositoryTeamPermissionResourceRead(hubClient, data, reply) ==
    HubResourceRead(hubClient, data, reply, "Docker Hub Repository Team Permission Read Failed")

OrgTeamResourceRead(hubClient, data, reply) ==
    HubResourceRead(hubClient, data, reply, "Docker Hub Team Read Failed")

OrgMemberResourceRead(hubClient, data, reply) ==
    HubResourceRead(hubClient, data, reply, "Docker Hub Organization Member Read Failed")

AccessTokenResourceRead(hubClient, data, reply) ==
    HubResourceRead(hubClient, data, reply, "Docker Hub Access Token Read Failed")

\* reply is IsTeamMember's result
OrgTeamMemberResourceRead(hubClient, data, reply) ==
    IF ~hubClient THEN readFailed(data, "Docker Hub Not Configured")
    ELSE IF reply.err # NoErr THEN readFailed(data, "Docker Hub Team Member Read Failed")
    ELSE IF ~reply.obj THEN removeResource
    ELSE stateSet(data)

\* the lookup a resource's Read makes, with the answers it may get
Replies(kind, hubClient, r) ==
    IF kind \in EngineKinds THEN EngineReplies(r)
    ELSE IF ~hubClient THEN {NoReply}
    ELSE IF kind = "org_team_member" THEN {IsTeamMember(l, "user") : l \in ListTeamMembers(r)}
    ELSE HubReplies(r)

\* the Read method the framework calls for a resource of the given type
ReadOf(kind, hubClient, data, reply) ==
    CASE kind = "image" -> ImageResourceRead(data, reply)
      [] kind = "network" -> NetworkResourceRead(data, reply)
      [] kind = "volume" -> VolumeResourceRead(data, reply)
      [] kind = "container" -> ContainerResourceRead(data, reply)
      [] kind = "secret" -> SecretResourceRead(data, reply)
      [] kind = "config" -> ConfigResourceRead(data, reply)
      [] kind = "service" -> ServiceResourceRead(data, reply)
      [] kind = "tag" -> TagResourceRead(data, reply)
      [] kind = "registry_image" -> RegistryImageResourceRead(data, reply)
      [] kind = "hub_repository" -> HubRepositoryResourceRead(hubClient, data, reply)
      [] kind = "hub_repository_team_permission" ->
            HubRepositoryTeamPermissionResourceRead(hubClient, data, reply)
      [] kind = "org_team" -> OrgTeamResourceRead(hubClient, data, reply)
      [] kind = "org_member" -> OrgMemberResourceRead(hubClient, data, reply)
      [] kind = "org_team_member" -> OrgTeamMemberResourceRead(hubClient, data, reply)
      [] kind = "access_token" -> AccessTokenResourceRead(hubClient, data, reply)

\* Read of an Engine, Swarm, registry or Hub resource
ResourceRead ==
    /\ pc = "read"
    /\ plan.kind # "compose"
    /\ \E reply \in Replies(plan.kind, plan.hubClient, remote) :
        LET out == ReadOf(plan.kind, plan.hubClient, tfstate, reply)
        IN /\ tfstate' = out.state
           /\ diags' = out.diags
           /\ todo' = reply
    /\ pc' = "done"
    /\ UNCHANGED <<plan, containers, networks, volumes, calls, faults, orders, clock, remote>>

\* ComposeResource.Read: parseComposeFile, refreshStackInfo, State.Set
ComposeRead ==
    /\ pc = "read"
    /\ plan.kind = "compose"
    /\ \E okList \in BOOLEAN :
        /\ MayFail(okList)
        /\ faults' = Charge(okList)
        /\ tfstate' = refreshStackInfo(tfstate, tfstate.project, containers, okList)
        /\ todo' = [err |-> IF okList THEN NoErr ELSE ConnectionError, obj |-> Null]
    /\ diags' = NoDiags
    /\ pc' = "done"
    /\ UNCHANGED <<plan, containers, networks, volumes, calls, orders, clock, remote>>

ReadNext ==
    \/ ResourceRead
    \/ ComposeRead

\* the remote objects: present with labels and attributes, or gone
RemoteObjects(kind) ==
    {[exists |-> TRUE, labels |-> l, attrs |-> a] :
        l \in (IF kind \in LabelKinds THEN LabelMaps ELSE {{}}), a \in AttrValues}
    \cup {[exists |-> FALSE, labels |-> {}, attrs |-> "v1"]}

\* what an earlier Create or Read stored
ResourceData(kind) ==
    [labels : (IF kind \in LabelKinds THEN LabelMaps ELSE {{}}), attrs : AttrValues]

\* Before Read: a resource in state; the remote object has changed or gone since
ReadInit ==
    /\ \E kind \in Kinds, hubClient \in BOOLEAN :
        /\ kind \notin HubKinds => hubClient = FALSE
        /\ IF kind = "compose"
           THEN /\ \E S \in (SUBSET SvcNames) \ {{}} :
                    /\ tfstate = StoredState(PlainProject(S), FALSE, Cardinality(S))
                    /\ containers \in [SvcNames -> {NoContainer, RunningContainer}]
                    /\ \A s \in SvcNames \ S : containers[s] = NoContainer
                /\ remote = [exists |-> ProjectContainers(containers) # {},
                             labels |-> {}, attrs |-> "v1"]
           ELSE /\ tfstate \in ResourceData(kind)
                /\ containers = [s \in SvcNames |-> NoContainer]
                /\ remote \in RemoteObjects(kind)
        /\ plan = [kind |-> kind, hubClient |-> hubClient, prior |-> tfstate]
    /\ networks = [n \in NetKeys |-> NoObject]
    /\ volumes = [v \in VolNames |-> NoObject]
    /\ pc = "read"
    /\ todo = NoReply
    /\ calls = <<>>
    /\ diags = NoDiags
    /\ faults = 0
    /\ orders = <<>>
    /\ clock = 0

SpecRead == ReadInit /\ [][ReadNext]_vars

(***************************************************************************)
(* ContainerResource: Create, Read, Update while the container lives       *)
(***************************************************************************)
\* how many Read and Update operations follow the Create
MaxOps == 3

\* the container on the daemon
NoRemoteContainer == [exists |-> FALSE, running |-> FALSE, labels |-> {}, attrs |-> "v1"]

\* the attributes of the plan the model follows
ContainerPlans == [MustRun : BOOLEAN, Remove : BOOLEAN]

\* the model decoded from a plan; attrs stands for the computed attributes
ContainerData(p) == [MustRun |-> p.MustRun, Remove |-> p.Remove, labels |-> {}, attrs |-> "v1"]

\* ContainerResource.Create: ContainerCreate, ContainerStart when must_run is set,
\* readContainerState, State.Set
ContainerCreate ==
    /\ pc = "container_create"
    /\ \E okCreate, okStart \in BOOLEAN, a \in AttrValues :
        /\ MayFail(okCreate /\ okStart)
        /\ okCreate \/ okStart
        /\ faults' = Charge(okCreate /\ okStart)
        /\ IF ~okCreate
           THEN /\ calls' = Append(calls, Call("ContainerCreate", "c", FALSE, {}))
                /\ diags' = AddError(NoDiags, "Container Create Error")
                /\ UNCHANGED <<remote, tfstate>>
                /\ pc' = "done"
           ELSE IF plan.MustRun /\ ~okStart
           THEN /\ calls' = calls \o <<Call("ContainerCreate", "c", TRUE, {}),
                                      Call("ContainerStart", "c", FALSE, {})>>
                /\ remote' = [exists |-> TRUE, running |-> FALSE, labels |-> {}, attrs |-> a]
                /\ diags' = AddError(NoDiags, "Container Start Error")
                /\ UNCHANGED tfstate
                /\ pc' = "done"
           ELSE /\ okStart
                /\ calls' = IF plan.MustRun
                            THEN calls \o <<Call("ContainerCreate", "c", TRUE, {}),
                                            Call("ContainerStart", "c", TRUE, {})>>
                            ELSE Append(calls, Call("ContainerCreate", "c", TRUE, {}))
                /\ remote' = [exists |-> TRUE, running |-> plan.MustRun, labels |-> {}, attrs |-> a]
                /\ diags' = NoDiags
                /\ tfstate' = [ContainerData(plan) EXCEPT !.attrs = a]
                /\ pc' = "container_idle"
    /\ todo' = "create"
    /\ UNCHANGED <<plan, containers, networks, volumes, orders, clock>>

\* ContainerResource.Read on the stored container
ContainerRead ==
    /\ pc = "container_idle"
    /\ tfstate # Null
    /\ clock < MaxOps
    /\ \E reply \in EngineReplies(remote) :
        LET out == ContainerResourceRead(tfstate, reply)
        IN /\ tfstate' = out.state
           /\ diags' = out.diags
    /\ todo' = "read"
    /\ clock' = clock + 1
    /\ UNCHANGED <<plan, containers, networks, volumes, pc, calls, faults, orders, remote>>

\* ContainerResource.Update: the plan is written to state, no daemon call is made
ContainerUpdate ==
    /\ pc = "container_idle"
    /\ tfstate # Null
    /\ clock < MaxOps
    /\ \E p \in ContainerPlans :
        /\ plan' = p
        /\ tfstate' = [tfstate EXCEPT !.MustRun = p.MustRun, !.Remove = p.Remove]
    /\ diags' = NoDiags
    /\ todo' = "update"
    /\ clock' = clock + 1
    /\ UNCHANGED <<containers, networks, volumes, pc, calls, faults, orders, remote>>

\* outside Terraform: the container exits, is stopped, or is removed
ContainerChangesOutside ==
    /\ pc = "container_idle"
    /\ remote.exists
    /\ \E r \in {[remote EXCEPT !.running = FALSE], NoRemoteContainer} :
        /\ r # remote
        /\ remote' = r
    /\ todo' = "outside"
    /\ UNCHANGED <<plan, tfstate, containers, networks, volumes, pc, calls, diags,
                   faults, orders, clock>>

ContainerNext ==
    \/ ContainerCreate
    \/ ContainerRead
    \/ ContainerUpdate
    \/ ContainerChangesOutside

ContainerInit ==
    /\ plan \in ContainerPlans
    /\ tfstate = Null
    /\ containers = [s \in SvcNames |-> NoContainer]
    /\ networks = [n \in NetKeys |-> NoObject]
    /\ volumes = [v \in VolNames |-> NoObject]
    /\ pc = "container_create"
    /\ todo = "none"
    /\ calls = <<>>
    /\ diags = NoDiags
    /\ faults = 0
    /\ orders = <<>>
    /\ clock = 0
    /\ remote = NoRemoteContainer

SpecContainer == ContainerInit /\ [][ContainerNext]_vars

(***************************************************************************)
(* Delete of docker_container, docker_image and docker_registry_image      *)
(***************************************************************************)
KeepKinds == {"container", "image", "registry_image"}

\* the prior state Delete reads: Keep is !remove for a container, keep_locally for an
\* image, keep_remotely for a registry image; attrs is what the last Read stored
KeepData == [kind : KeepKinds, Keep : BOOLEAN, ForceRemove : BOOLEAN, attrs : AttrValues]

\* the remote object: a container, a local image, or an image in the registry
KeptObjects(kind) ==
    {[exists |-> TRUE, running |-> r, labels |-> {}, attrs |-> a] :
        r \in (IF kind = "container" THEN BOOLEAN ELSE {FALSE}), a \in AttrValues}
    \cup {NoRemoteContainer}

Conflict == FromDaemon(<<"conflict", ":", "unable", "to", "remove", "x">>)

\* what ContainerStop may return for the container r
ContainerStopErrors(r) ==
    IF ~r.exists THEN {FromDaemon(<<"No", "such", "container", ":", "x">>)}
    ELSE IF ~r.running
    THEN {NoErr, FromDaemon(<<"container", "x", "is", "not", "running">>), ConnectionError}
    ELSE {NoErr, ConnectionError}

\* what ContainerRemove (forced) may return for the container r
ContainerRemoveErrors(r) ==
    IF ~r.exists
    THEN {FromDaemon(<<"No", "such", "container", ":", "x">>),
          FromDaemon(<<"container", "x", "not", "found">>)}
    ELSE {NoErr, ConnectionError, Conflict}

\* what ImageRemove may return for the image r
ImageRemoveErrors(r) ==
    IF ~r.exists THEN {FromDaemon(<<"No", "such", "image", ":", "x">>)}
    ELSE {NoErr, ConnectionError, Conflict}

\* the object after a call that returned err: a nil error means the call took effect
AfterStop(r, err) == IF err = NoErr THEN [r EXCEPT !.running = FALSE] ELSE r
AfterRemoveCall(r, err) == IF err = NoErr THEN NoRemoteContainer ELSE r

\* Delete after ContainerStop returned err: go on to ContainerRemove, or fail
containerStopTolerated(err) ==
    \/ err = NoErr
    \/ Contains(err, <<"is", "not", "running">>)
    \/ Contains(err, <<"No", "such", "container">>)

\* a plausible slip: every error of ContainerRemove is swallowed
containerRemoveDiagnosticsIgnored(err) == NoDiags

\* Delete after ContainerRemove returned err
containerRemoveDiagnostics(err) ==
    IF err = NoErr THEN NoDiags
    ELSE IF \/ Contains(err, <<"No", "such", "container">>)
            \/ Contains(err, <<"not", "found">>)
    THEN NoDiags
    ELSE AddError(NoDiags, "Container Delete Error")

\* Delete after ImageRemove returned err
imageRemoveDiagnostics(err) ==
    IF err = NoErr THEN NoDiags
    ELSE IF Contains(err, <<"No", "such", "image">>) THEN NoDiags
    ELSE AddError(NoDiags, "Image Delete Error")

\* the framework drops the resource from state when Delete returns without an error
AfterDelete(d) == IF HasError(d) THEN tfstate ELSE Null

\* Delete of a container with remove = false, an image with keep_locally = true or a
\* registry image with keep_remotely = true: return at once
DeleteKept ==
    /\ pc = "delete"
    /\ tfstate.Keep
    /\ diags' = NoDiags
    /\ tfstate' = AfterDelete(NoDiags)
    /\ pc' = "done"
    /\ UNCHANGED <<plan, containers, networks, volumes, todo, calls, faults, orders, clock, remote>>

\* ContainerResource.Delete, first call: ContainerStop
ContainerDeleteStop ==
    /\ pc = "delete"
    /\ tfstate.kind = "container"
    /\ ~tfstate.Keep
    /\ \E err \in ContainerStopErrors(remote) :
        /\ calls' = Append(calls, Call("ContainerStop", "c", err = NoErr, {}))
        /\ remote' = AfterStop(remote, err)
        /\ todo' = err
        /\ IF containerStopTolerated(err)
           THEN /\ pc' = "delete_remove"
                /\ UNCHANGED <<diags, tfstate>>
           ELSE /\ pc' = "done"
                /\ diags' = AddError(NoDiags, "Container Stop Error")
                /\ tfstate' = tfstate
    /\ UNCHANGED <<plan, containers, networks, volumes, faults, orders, clock>>

\* ContainerResource.Delete, second call: ContainerRemove
ContainerDeleteRemove ==
    /\ pc = "delete_remove"
    /\ \E err \in ContainerRemoveErrors(remote) :
        /\ calls' = Append(calls, Call("ContainerRemove", "c", err = NoErr, {}))
        /\ remote' = AfterRemoveCall(remote, err)
        /\ todo' = err
        /\ diags' = containerRemoveDiagnostics(err)
        /\ tfstate' = AfterDelete(containerRemoveDiagnostics(err))
    /\ pc' = "done"
    /\ UNCHANGED <<plan, containers, networks, volumes, faults, orders, clock>>

\* ImageResource.Delete: ImageRemove
ImageDelete ==
    /\ pc = "delete"
    /\ tfstate.kind = "image"
    /\ ~tfstate.Keep
    /\ \E err \in ImageRemoveErrors(remote) :
        /\ calls' = Append(calls, Call("ImageRemove", "i", err = NoErr, {}))
        /\ remote' = AfterRemoveCall(remote, err)
        /\ todo' = err
        /\ diags' = imageRemoveDiagnostics(err)
        /\ tfstate' = AfterDelete(imageRemoveDiagnostics(err))
    /\ pc' = "done"
    /\ UNCHANGED <<plan, containers, networks, volumes, faults, orders, clock>>

\* RegistryImageResource.Delete with keep_remotely = false: a warning, no call
RegistryImageDelete ==
    /\ pc = "delete"
    /\ tfstate.kind = "registry_image"
    /\ ~tfstate.Keep
    /\ diags' = AddWarning(NoDiags, "Registry Deletion Not Supported")
    /\ tfstate' = Null
    /\ pc' = "done"
    /\ UNCHANGED <<plan, containers, networks, volumes, todo, calls, faults, orders, clock, remote>>

KeepDeleteNext ==
    \/ DeleteKept
    \/ ContainerDeleteStop
    \/ ContainerDeleteRemove
    \/ ImageDelete
    \/ RegistryImageDelete

\* Before Delete: the resource in state, the remote object as Create left it or as it
\* was changed outside Terraform since; plan keeps what Delete started from
KeepDeleteInit ==
    /\ tfstate \in KeepData
    /\ tfstate.kind # "image" => ~tfstate.ForceRemove
    /\ remote \in KeptObjects(tfstate.kind)
    /\ plan = [prior |-> tfstate, before |-> remote]
    /\ containers = [s \in SvcNames |-> NoContainer]
    /\ networks = [n \in NetKeys |-> NoObject]
    /\ volumes = [v \in VolNames |-> NoObject]
    /\ pc = "delete"
    /\ todo = NoErr
    /\ calls = <<>>
    /\ diags = NoDiags
    /\ faults = 0
    /\ orders = <<>>
    /\ clock = 0

SpecKeepDelete == KeepDeleteInit /\ [][KeepDeleteNext]_vars

(***************************************************************************)
(* DockerProvider.Configure                                                *)
(***************************************************************************)
\* a null attribute of the provider block
NullString == "<null>"

\* an optional string attribute with its environment variable: unset everywhere, set
\* in the environment only, set to "" in the block over a set variable, set in the block
StringSettings ==
    {[cfg |-> NullString, env |-> ""], [cfg |-> NullString, env |-> "x"],
     [cfg |-> "", env |-> "x"], [cfg |-> "x", env |-> ""]}

\* tls_verify and DOCKER_TLS_VERIFY
TLSVerifySettings == [cfg : {NullString, "true", "false"}, env : {"", "1"}]

\* ca_cert, cert and key have no environment variable
ContentSettings == {NullString, "x"}

\* engine settings that do not ask for TLS
NoTLS ==
    [tls_verify |-> [cfg |-> NullString, env |-> ""], cert_path |-> [cfg |-> NullString, env |-> ""],
     ca_cert |-> NullString, cert |-> NullString, key |-> NullString]

EngineSettings ==
    [tls_verify : TLSVerifySettings, cert_path : StringSettings,
     ca_cert : ContentSettings, cert : ContentSettings, key : ContentSettings]

HubSettings ==
    [hub_username : StringSettings, hub_password : StringSettings, hub_token : StringSettings]

\* `v := os.Getenv(...); if !config.X.IsNull() { v = config.X.ValueString() }`
Effective(setting) == IF setting.cfg # NullString THEN setting.cfg ELSE setting.env

\* `var v string; if !config.X.IsNull() { v = config.X.ValueString() }`
ValueOrEmpty(v) == IF v = NullString THEN "" ELSE v

\* tlsVerify as Configure computes it
tlsVerifyOf(c) ==
    IF c.tls_verify.cfg # NullString THEN c.tls_verify.cfg = "true" ELSE c.tls_verify.env = "1"

\* the docker.ClientConfig Configure builds
clientConfigOf(c) ==
    [TLSVerify |-> tlsVerifyOf(c), CertPath |-> Effective(c.cert_path),
     CACert |-> ValueOrEmpty(c.ca_cert), Cert |-> ValueOrEmpty(c.cert), Key |-> ValueOrEmpty(c.key)]

\* a plausible slip: any one of ca_cert, cert, key counts as certificate content
tlsConfigurationPresentAny(config) ==
    config.CertPath # "" \/ config.CACert # "" \/ config.Cert # "" \/ config.Key # ""

\* Configure's validation: hasCertPath || hasCertContent
tlsConfigurationPresent(config) ==
    config.CertPath # "" \/ (config.CACert # "" /\ config.Cert # "" /\ config.Key # "")

\* createTLSHTTPClient: the error it returns ("" for none); okMaterial tells whether
\* the certificates parse or load
createTLSHTTPClient(config, okMaterial) ==
    IF config.CACert # "" /\ config.Cert # "" /\ config.Key # ""
    THEN IF okMaterial THEN "" ELSE "failed to parse certificate content"
    ELSE IF config.CertPath # ""
    THEN IF okMaterial THEN "" ELSE "failed to create TLS config from cert path"
    ELSE "TLS verification enabled but no certificates provided"

\* docker.NewClient: the error it returns; okPing tells whether the daemon answers
NewDockerClient(config, okMaterial, okPing) ==
    IF config.TLSVerify /\ createTLSHTTPClient(config, okMaterial) # ""
    THEN createTLSHTTPClient(config, okMaterial)
    ELSE IF okPing THEN "" ELSE "failed to connect to Docker daemon"

\* the condition under which Configure calls dockerhub.NewClient
hubCredentialsGiven(username, password, token) ==
    username # "" /\ (password # "" \/ token # "")

\* dockerhub.NewClient: a token is used as it is, else username and password are sent
\* to /users/login; the result tells whether a client was built and whether the login
\* request was made
NewHubClient(username, password, token, okLogin) ==
    IF token # "" THEN [client |-> TRUE, login |-> FALSE]
    ELSE IF username # "" /\ password # "" THEN [client |-> okLogin, login |-> TRUE]
    ELSE [client |-> TRUE, login |-> FALSE]

NoProviderData == [set |-> FALSE, DockerClient |-> FALSE, HubClient |-> FALSE]

\* DockerProvider.Configure
Configure ==
    /\ pc = "configure"
    /\ \E okMaterial, okPing, okLogin \in BOOLEAN :
        LET config == clientConfigOf(plan)
            engineErr == NewDockerClient(config, okMaterial, okPing)
            username == Effective(plan.hub_username)
            password == Effective(plan.hub_password)
            token == Effective(plan.hub_token)
            hub == NewHubClient(username, password, token, okLogin)
        IN IF config.TLSVerify /\ ~tlsConfigurationPresent(config)
           THEN /\ diags' = AddError(NoDiags, "Missing TLS Configuration")
                /\ todo' = [data |-> NoProviderData, engineErr |-> "", login |-> FALSE]
                /\ calls' = calls
           ELSE IF engineErr # ""
           THEN /\ diags' = AddError(NoDiags, "Unable to Create Docker Client")
                /\ todo' = [data |-> NoProviderData, engineErr |-> engineErr, login |-> FALSE]
                /\ calls' = calls
           ELSE IF hubCredentialsGiven(username, password, token)
           THEN /\ diags' = IF hub.client THEN NoDiags
                            ELSE AddWarning(NoDiags, "Docker Hub Authentication Failed")
                /\ todo' = [data |-> [set |-> TRUE, DockerClient |-> TRUE, HubClient |-> hub.client],
                            engineErr |-> "", login |-> hub.login]
                /\ calls' = IF hub.login
                            THEN Append(calls, Call("POST /users/login", "hub", hub.client, {}))
                            ELSE calls
           ELSE /\ diags' = NoDiags
                /\ todo' = [data |-> [set |-> TRUE, DockerClient |-> TRUE, HubClient |-> FALSE],
                            engineErr |-> "", login |-> FALSE]
                /\ calls' = calls
    /\ pc' = IF HasError(diags') THEN "done" ELSE "configured"
    /\ UNCHANGED <<plan, tfstate, containers, networks, volumes, faults, orders, clock, remote>>

\* the provider block and environment Configure runs on
ProviderSettings(engine) ==
    {[tls_verify |-> e.tls_verify, cert_path |-> e.cert_path, ca_cert |-> e.ca_cert,
      cert |-> e.cert, key |-> e.key, hub_username |-> h.hub_username,
      hub_password |-> h.hub_password, hub_token |-> h.hub_token] :
        e \in engine, h \in HubSettings}

ConfigureInit ==
    /\ plan \in ProviderSettings(EngineSettings)
    /\ tfstate = Null
    /\ containers = [s \in SvcNames |-> NoContainer]
    /\ networks = [n \in NetKeys |-> NoObject]
    /\ volumes = [v \in VolNames |-> NoObject]
    /\ pc = "configure"
    /\ todo = [data |-> NoProviderData, engineErr |-> "", login |-> FALSE]
    /\ calls = <<>>
    /\ diags = NoDiags
    /\ faults = 0
    /\ orders = <<>>
    /\ clock = 0
    /\ remote = Null

SpecConfigure == ConfigureInit /\ [][Configure]_vars

(***************************************************************************)
(* Create, Read, Update and Delete of the Docker Hub resources             *)
(***************************************************************************)
HubOps == {"Create", "Read", "Update", "Delete"}

\* the nil check every handler but one starts with
hubNotConfigured(state) ==
    [state |-> state, diags |-> AddError(NoDiags, "Docker Hub Not Configured"), sent |-> FALSE]

\* Create of a Hub resource: nil check, request, State.Set
HubResourceCreate(hubClient, data, err) ==
    IF ~hubClient THEN hubNotConfigured(Null)
    ELSE IF err # NoErr
    THEN [state |-> Null, diags |-> AddError(NoDiags, "Creation Failed"), sent |-> TRUE]
    ELSE [state |-> data, diags |-> NoDiags, sent |-> TRUE]

\* OrgTeamMemberResource.Update: no nil check and no request, the plan is stored
OrgTeamMemberResourceUpdate(hubClient, prior, data, err) ==
    [state |-> data, diags |-> NoDiags, sent |-> FALSE]

\* a plausible slip: Update without the nil check, copied from the stub above
HubResourceUpdateUnchecked(hubClient, prior, data, err) ==
    IF hubClient /\ err # NoErr
    THEN [state |-> prior, diags |-> AddError(NoDiags, "Update Failed"), sent |-> TRUE]
    ELSE [state |-> data, diags |-> NoDiags, sent |-> hubClient]

\* Update of the other Hub resources: nil check, request, State.Set
HubResourceUpdate(hubClient, prior, data, err) ==
    IF ~hubClient THEN hubNotConfigured(prior)
    ELSE IF err # NoErr
    THEN [state |-> prior, diags |-> AddError(NoDiags, "Update Failed"), sent |-> TRUE]
    ELSE [state |-> data, diags |-> NoDiags, sent |-> TRUE]

\* Delete of a Hub resource: nil check, request; an object already gone is no error
HubResourceDelete(hubClient, prior, err) ==
    IF ~hubClient THEN hubNotConfigured(prior)
    ELSE IF err # NoErr /\ ~(Contains(err, <<"404">>) \/ Contains(err, <<"not", "found">>))
    THEN [state |-> prior, diags |-> AddError(NoDiags, "Deletion Failed"), sent |-> TRUE]
    ELSE [state |-> Null, diags |-> NoDiags, sent |-> TRUE]

\* Read of a Hub resource, with whether it made its request
HubRead(kind, hubClient, prior, reply) ==
    LET out == ReadOf(kind, hubClient, prior, reply)
    IN [state |-> out.state, diags |-> out.diags, sent |-> hubClient]

\* the handler the framework calls
HubHandler(kind, op, hubClient, prior, data, reply) ==
    CASE op = "Create" -> HubResourceCreate(hubClient, data, reply.err)
      [] op = "Read" -> HubRead(kind, hubClient, prior, reply)
      [] op = "Update" /\ kind = "org_team_member" ->
            OrgTeamMemberResourceUpdate(hubClient, prior, data, reply.err)
      [] op = "Update" /\ kind # "org_team_member" ->
            HubResourceUpdate(hubClient, prior, data, reply.err)
      [] op = "Delete" -> HubResourceDelete(hubClient, prior, reply.err)

\* the answers to the request of an operation
HubRequestReplies(kind, op, hubClient, r) ==
    IF ~hubClient THEN {NoReply}
    ELSE IF op = "Read" THEN Replies(kind, hubClient, r)
    ELSE IF op = "Create" THEN {[err |-> doRequest(s), obj |-> r] : s \in {200, 500, 0}}
    ELSE HubReplies(r)

\* the planned values of an operation; every argument of docker_org_team_member
\* requires replacement, so the plan of its Update is the prior state
HubPlans(kind, op, prior) ==
    IF op \in {"Read", "Delete"} \/ (op = "Update" /\ kind = "org_team_member")
    THEN {prior}
    ELSE ResourceData(kind)

\* the Hub object after an operation that got its request through
HubObjectAfter(op, r, out, reply) ==
    IF ~out.sent \/ reply.err # NoErr \/ op = "Read" THEN r
    ELSE IF op = "Delete" THEN [exists |-> FALSE, labels |-> {}, attrs |-> "v1"]
    ELSE [exists |-> TRUE, labels |-> {}, attrs |-> out.state.attrs]

\* one operation on a Hub resource after Configure
HubOperation ==
    /\ pc = "configured"
    /\ \E kind \in HubKinds, op \in HubOps :
        /\ (op = "Create") = (tfstate = Null)
        /\ \E data \in HubPlans(kind, op, tfstate),
              reply \in HubRequestReplies(kind, op, todo.data.HubClient, remote) :
            LET out == HubHandler(kind, op, todo.data.HubClient, tfstate, data, reply)
            IN /\ tfstate' = out.state
               /\ diags' = out.diags
               /\ calls' = IF out.sent
                           THEN Append(calls, Call(op, kind, reply.err = NoErr, {}))
                           ELSE calls
               /\ remote' = HubObjectAfter(op, remote, out, reply)
               /\ todo' = [data |-> todo.data, engineErr |-> todo.engineErr,
                           login |-> todo.login, kind |-> kind, op |-> op, before |-> tfstate]
    /\ pc' = "operated"
    /\ UNCHANGED <<plan, containers, networks, volumes, faults, orders, clock>>

HubNext ==
    \/ Configure
    \/ HubOperation

\* a provider without TLS, any Hub credentials, a Hub resource in state or planned
HubInit ==
    /\ plan \in ProviderSettings({NoTLS})
    /\ tfstate \in {Null} \cup ResourceData("hub_repository")
    /\ remote \in RemoteObjects("hub_repository")
    /\ containers = [s \in SvcNames |-> NoContainer]
    /\ networks = [n \in NetKeys |-> NoObject]
    /\ volumes = [v \in VolNames |-> NoObject]
    /\ pc = "configure"
    /\ todo = [data |-> NoProviderData, engineErr |-> "", login |-> FALSE]
    /\ calls = <<>>
    /\ diags = NoDiags
    /\ faults = 0
    /\ orders = <<>>
    /\ clock = 0

SpecHub == HubInit /\ [][HubNext]_vars

(***************************************************************************)
(* ComposeResource.Create and Update on one footing                        *)
(***************************************************************************)
ApplyNext ==
    \/ CreateNext
    \/ UpdateNext

ApplyInit ==
    \/ CreateInit
    \/ UpdateInit

SpecApply == ApplyInit /\ [][ApplyNext]_vars

(***************************************************************************)
(* The paginated Docker Hub data sources                                   *)
(***************************************************************************)
\* docker_hub_repositories, docker_hub_repository_tags, docker_org_members and
\* docker_access_tokens
ListKinds == {"hub_repositories", "hub_repository_tags", "org_members", "access_tokens"}

\* the size of the remote collection, and of the page the server hands out for
\* page_size=100 (the requested size, scaled down, or a smaller one the server enforces)
MaxItems == 5
MaxPageSize == 3

Min(a, b) == IF a < b THEN a ELSE b

\* the collection: items 1..n in the server's order
Collection(n) == [i \in 1..n |-> i]

\* the `results` of page `page`: empty past the end
PageOf(r, page) ==
    SubSeq(Collection(r.items), (page - 1) * r.pageSize + 1, Min(page * r.pageSize, r.items))

\* a plausible slip: only an empty page ends the loop
pagesDoneOnEmptyPage(all, page, count) == Len(page) = 0

\* `len(all) >= count || len(page) == 0`
pagesDone(all, page, count) == Len(all) >= count \/ Len(page) = 0

\* one iteration of the `for` loop of Read: a List call, append, break or page++; after
\* the break the collected items are stored with State.Set
ListPage ==
    /\ pc = "list"
    /\ \E ok \in BOOLEAN :
        /\ MayFail(ok)
        /\ faults' = Charge(ok)
        /\ calls' = Append(calls, Call("List", plan.kind, ok, {}))
        /\ IF ~ok
           THEN /\ diags' = AddError(diags, "Failed to List")
                /\ pc' = "done"
                /\ UNCHANGED <<todo, tfstate>>
           ELSE LET page == PageOf(remote, todo.page)
                    all == todo.all \o page
                IN /\ diags' = diags
                   /\ IF pagesDone(all, page, remote.items)
                      THEN /\ pc' = "done"
                           /\ todo' = [page |-> todo.page, all |-> all]
                           /\ tfstate' = [ID |-> plan.kind, items |-> all]
                      ELSE /\ pc' = "list"
                           /\ todo' = [page |-> todo.page + 1, all |-> all]
                           /\ tfstate' = tfstate
    /\ UNCHANGED <<plan, containers, networks, volumes, orders, clock, remote>>

\* Read of a data source whose Hub client is nil
ListNotConfigured ==
    /\ pc = "list_unconfigured"
    /\ diags' = AddError(diags, "Docker Hub Not Configured")
    /\ pc' = "done"
    /\ UNCHANGED <<plan, tfstate, containers, networks, volumes, todo, calls, faults, orders, clock, remote>>

ListNext ==
    \/ ListPage
    \/ ListNotConfigured

ListInit ==
    /\ plan \in [kind : ListKinds, hubClient : BOOLEAN]
    /\ remote \in [items : 0..MaxItems, pageSize : 1..MaxPageSize]
    /\ tfstate = Null
    /\ containers = [s \in SvcNames |-> NoContainer]
    /\ networks = [n \in NetKeys |-> NoObject]
    /\ volumes = [v \in VolNames |-> NoObject]
    /\ pc = IF plan.hubClient THEN "list" ELSE "list_unconfigured"
    /\ todo = [page |-> 1, all |-> <<>>]
    /\ calls = <<>>
    /\ diags = NoDiags
    /\ faults = 0
    /\ orders = <<>>
    /\ clock = 0

SpecList == ListInit /\ [][ListNext]_vars

\* the loop is not suspended forever between two pages
SpecListFair == SpecList /\ WF_vars(ListNext)

(***************************************************************************)
(* RegistryImageResource.Create: ImagePush and the push output             *)
(***************************************************************************)
MaxStream == 3

\* what the push output holds: a status message, the aux message with the digest, a
\* message with an error field, a JSON value of the wrong shape, text that is not JSON
PushLines == {"status", "aux", "error", "mistyped", "garbage"}

PushStreams == UNION {[1..n -> PushLines] : n \in 0..MaxStream}

NewDecoder == [pos |-> 1, err |-> ""]

\* json.Decoder.Decode: an error of reading or of syntax is kept in the decoder and
\* returned by every later call; an error of unmarshalling a complete value is not
Decode(dec, stream) ==
    IF dec.err # "" THEN [dec |-> dec, err |-> dec.err, msg |-> ""]
    ELSE IF dec.pos > Len(stream)
    THEN [dec |-> [dec EXCEPT !.err = "EOF"], err |-> "EOF", msg |-> ""]
    ELSE IF stream[dec.pos] = "garbage"
    THEN [dec |-> [dec EXCEPT !.err = "invalid character"], err |-> "invalid character", msg |-> ""]
    ELSE IF stream[dec.pos] = "mistyped"
    THEN [dec |-> [dec EXCEPT !.pos = @ + 1], err |-> "cannot unmarshal", msg |-> ""]
    ELSE [dec |-> [dec EXCEPT !.pos = @ + 1], err |-> "", msg |-> stream[dec.pos]]

\* Create up to the loop: ImagePush
PushBegin ==
    /\ pc = "push"
    /\ \E ok \in BOOLEAN :
        /\ MayFail(ok)
        /\ faults' = Charge(ok)
        /\ calls' = Append(calls, Call("ImagePush", "image", ok, {}))
        /\ diags' = IF ok THEN diags ELSE AddError(diags, "Docker Image Push Failed")
        /\ pc' = IF ok THEN "push_decode" ELSE "done"
    /\ UNCHANGED <<plan, tfstate, containers, networks, volumes, todo, orders, clock, remote>>

\* one iteration of the decode loop, counted modulo 2; after the break, the digest is taken from the
\* output or from ImageInspectWithRaw, and State.Set
PushDecode ==
    /\ pc = "push_decode"
    /\ LET d == Decode(todo.dec, plan.stream)
       IN IF d.err = "EOF"
          THEN \E okInspect \in BOOLEAN :
                /\ todo.digest = "" => MayFail(okInspect)
                /\ todo.digest # "" => okInspect
                /\ faults' = Charge(okInspect)
                /\ calls' = IF todo.digest = ""
                            THEN Append(calls, Call("ImageInspectWithRaw", "image", okInspect, {}))
                            ELSE calls
                /\ tfstate' = [ID |-> "image",
                               Sha256Digest |-> IF todo.digest # "" THEN todo.digest
                                                ELSE IF okInspect THEN "sha256:inspect"
                                                ELSE "<null>"]
                /\ todo' = [todo EXCEPT !.dec = d.dec, !.iteration = 1 - @]
                /\ diags' = diags
                /\ pc' = "done"
          ELSE IF d.err # ""
          THEN /\ todo' = [todo EXCEPT !.dec = d.dec, !.iteration = 1 - @]
               /\ pc' = "push_decode"
               /\ UNCHANGED <<tfstate, diags, calls, faults>>
          ELSE IF d.msg = "error"
          THEN /\ diags' = AddError(diags, "Docker Image Push Error")
               /\ todo' = [todo EXCEPT !.dec = d.dec, !.iteration = 1 - @]
               /\ pc' = "done"
               /\ UNCHANGED <<tfstate, calls, faults>>
          ELSE /\ todo' = [dec |-> d.dec, iteration |-> 1 - todo.iteration,
                           digest |-> IF d.msg = "aux" THEN "sha256:push" ELSE todo.digest]
               /\ pc' = "push_decode"
               /\ UNCHANGED <<tfstate, diags, calls, faults>>
    /\ UNCHANGED <<plan, containers, networks, volumes, orders, clock, remote>>

PushNext ==
    \/ PushBegin
    \/ PushDecode

PushInit ==
    /\ plan \in [stream : PushStreams]
    /\ tfstate = Null
    /\ containers = [s \in SvcNames |-> NoContainer]
    /\ networks = [n \in NetKeys |-> NoObject]
    /\ volumes = [v \in VolNames |-> NoObject]
    /\ pc = "push"
    /\ todo = [dec |-> NewDecoder, digest |-> "", iteration |-> 0]
    /\ calls = <<>>
    /\ diags = NoDiags
    /\ faults = 0
    /\ orders = <<>>
    /\ clock = 0
    /\ remote = Null

SpecPush == PushInit /\ [][PushNext]_vars

\* the loop keeps running: an iteration that changes something is taken
SpecPushFair == SpecPush /\ WF_vars(PushNext)

(***************************************************************************)
(* ComposeDataSource.Read                                                  *)
(***************************************************************************)
MaxContainers == 3

\* the com.docker.compose.service label of a container of the project; "" when absent
ServiceLabels == {"", "web", "db"}

\* what ContainerList returns with All: true: the containers of the project in the
\* daemon's order, several per service where a service is scaled
ListedContainers ==
    UNION {[1..n -> [service : ServiceLabels, State : {"running", "exited"}]] :
            n \in 0..MaxContainers}

\* the ComposeServiceInfo built from the i-th container
ComposeServiceInfo(list, i) ==
    [Name |-> list[i].service, ContainerID |-> i, State |-> list[i].State]

\* the `for _, container := range containers` loop from the i-th container on:
\* serviceMap keeps the first container of a service unless a later one runs and the
\* kept one does not; runningCount is incremented for every running container
RECURSIVE collectServices(_, _, _, _)
collectServices(list, i, serviceMap, runningCount) ==
    IF i > Len(list) THEN [serviceMap |-> serviceMap, runningCount |-> runningCount]
    ELSE IF list[i].service = "" THEN collectServices(list, i + 1, serviceMap, runningCount)
    ELSE LET name == list[i].service
             service == ComposeServiceInfo(list, i)
             replace == IF name \in DOMAIN serviceMap
                        THEN list[i].State = "running" /\ serviceMap[name].State # "running"
                        ELSE TRUE
             nextMap == IF replace
                        THEN [n \in DOMAIN serviceMap \cup {name} |->
                                IF n = name THEN service ELSE serviceMap[n]]
                        ELSE serviceMap
         IN collectServices(list, i + 1, nextMap,
                            IF list[i].State = "running" THEN runningCount + 1
                            ELSE runningCount)

\* ComposeDataSource.Read: ContainerList, the loop, State.Set
ComposeDataSourceRead ==
    /\ pc = "data_read"
    /\ \E ok \in BOOLEAN :
        /\ MayFail(ok)
        /\ faults' = Charge(ok)
        /\ calls' = Append(calls, Call("ContainerList", "p", ok, {}))
        /\ IF ~ok
           THEN /\ diags' = AddError(diags, "Docker API Error")
                /\ tfstate' = tfstate
           ELSE LET out == collectServices(remote, 1, <<>>, 0)
                    services == {out.serviceMap[n] : n \in DOMAIN out.serviceMap}
                IN /\ diags' = diags
                   /\ tfstate' = [ID |-> "p", Services |-> services,
                                  TotalServices |-> Cardinality(services),
                                  RunningServices |-> out.runningCount]
    /\ pc' = "done"
    /\ UNCHANGED <<plan, containers, networks, volumes, todo, orders, clock, remote>>

ComposeDataSourceInit ==
    /\ remote \in ListedContainers
    /\ plan = [project_name |-> "p"]
    /\ tfstate = Null
    /\ containers = [s \in SvcNames |-> NoContainer]
    /\ networks = [n \in NetKeys |-> NoObject]
    /\ volumes = [v \in VolNames |-> NoObject]
    /\ pc = "data_read"
    /\ todo = {}
    /\ calls = <<>>
    /\ diags = NoDiags
    /\ faults = 0
    /\ orders = <<>>
    /\ clock = 0

SpecComposeDataSource == ComposeDataSourceInit /\ [][ComposeDataSourceRead]_vars

(***************************************************************************)
(* Properties of the compose resource                                      *)
(***************************************************************************)
ContainerCalls == {"ContainerCreate", "ContainerStart"}
RemovalCalls == {"ContainerStop", "ContainerRemove"}
Succeeded == pc = "done" /\ ~HasError(diags)

\* C1: in Create, for a file whose depends_on graph is acyclic and names only defined
\* services, ContainerCreate and ContainerStart are issued for a service only after a
\* successful ContainerStart of every service it depends on, directly or transitively.
C1_DependenciesStartedFirst ==
    (plan.source = "content" /\ Acyclic(plan.project) /\ DepsDefined(plan.project)) =>
        \A i \in 1..Len(calls) :
            calls[i].op \in ContainerCalls =>
                \A d \in TransDeps(plan.project, calls[i].name) :
                    \E j \in 1..(i - 1) : calls[j] = Call("ContainerStart", d, TRUE, {})

\* C1 witness: Create succeeded on the chain a -> b -> c, the container of a was created
C1_ChainCreated ==
    /\ Succeeded
    /\ plan.source = "content"
    /\ DOMAIN plan.project.Services = SvcNames
    /\ plan.project.Services["a"].DependsOn = {"b"}
    /\ plan.project.Services["b"].DependsOn = {"c"}
    /\ \E i \in 1..Len(calls) : calls[i] = Call("ContainerCreate", "a", TRUE, {})

\* C2: two invocations of getServiceOrder on the same project return the same order.
C2_OrderDeterministic ==
    \A i, j \in 1..Len(orders) : orders[i] = orders[j]

\* C7: after a successful Update every service of the new file has a container
\* <project>-<service>-1 on the daemon.
C7_EveryServiceHasContainer ==
    Succeeded => \A s \in DOMAIN plan.project.Services : containers[s].exists

\* C8: in Create, every network named in the NetworkingConfig of a ContainerCreate call
\* exists on the daemon when the call is made.
C8_NetworksExistAtContainerCreate ==
    \A i \in 1..Len(calls) : calls[i].op = "ContainerCreate" => calls[i].missing = {}

\* C9: Update removes the containers of undefined services if and only if
\* remove_orphans is true: with remove_orphans = false no container of an undefined
\* service is stopped or removed, with remove_orphans = true none remains after Update.
C9_OrphansRemovedIffRemoveOrphans ==
    /\ (plan.source = "content" /\ ~plan.RemoveOrphans) =>
            \A i \in 1..Len(calls) :
                calls[i].op \in RemovalCalls => calls[i].name \in DOMAIN plan.project.Services
    /\ (Succeeded /\ plan.RemoveOrphans) => Orphans(plan.project, containers) = {}

\* C10: Delete removes the declared non-external volumes if and only if remove_volumes
\* is true: with remove_volumes = false it makes no VolumeRemove call, with
\* remove_volumes = true every declared volume is gone when Delete returns, removed
\* after the containers and networks.
C10_VolumesRemovedIffRemoveVolumes ==
    pc = "done" =>
        /\ ~plan.RemoveVolumes => \A i \in 1..Len(calls) : calls[i].op # "VolumeRemove"
        /\ plan.RemoveVolumes =>
            /\ \A v \in DOMAIN plan.project.Volumes :
                    ~plan.project.Volumes[v].External => ~volumes[v].exists
            /\ \A i, j \in 1..Len(calls) :
                    (calls[i].op = "VolumeRemove" /\ calls[j].op # "VolumeRemove") => j < i

(***************************************************************************)
(* Properties of the service resource                                      *)
(***************************************************************************)
\* the update states after which an update makes no further progress
Terminal(r) == r \in {"none", "completed", "paused", "rollback_completed", "rollback_paused"}

InspectsOf(cs) == SelectSeq(cs, LAMBDA c : c.op = "ServiceInspect")

\* C3: waitForConvergence stops polling at the first successful inspect whose
\* UpdateStatus is absent or terminal, and adds the timeout warning only if no such
\* inspect happened.
C3_StopsAtFirstTerminalInspect ==
    LET polls == InspectsOf(calls)
    IN /\ \A i \in 1..(Len(polls) - 1) : ~Terminal(polls[i].name)
       /\ "Service Convergence Timeout" \in diags.warnings =>
            \A i \in 1..Len(polls) : ~Terminal(polls[i].name)

\* C4: when the wait ends by the deadline, the diagnostics hold the timeout warning
\* and no error, and Create or Update has written the resource with its ID to state.
C4_TimeoutWarnsAndStateIsWritten ==
    (pc = "done" /\ todo.outcome = "timeout") =>
        /\ ~HasError(diags)
        /\ "Service Convergence Timeout" \in diags.warnings
        /\ tfstate = ServiceData(plan)
        /\ tfstate.ID = ServiceID

\* C4 witness: a Create whose wait polled twice without convergence and timed out
C4_TimedOutAfterPolling ==
    /\ pc = "done"
    /\ todo.outcome = "timeout"
    /\ Len(InspectsOf(calls)) >= 2
    /\ calls[1].op = "ServiceCreate"

(***************************************************************************)
(* Properties of the Read operations                                       *)
(***************************************************************************)
\* the resources whose Read removes the resource when its lookup reports not found
RemovingKinds == (EngineKinds \ {"registry_image"}) \cup (HubKinds \ {"org_team_member"})

\* the texts by which the lookup of each resource type reports not found
NotFoundPhrases(kind) ==
    CASE kind \in {"image", "tag", "registry_image"} -> {<<"No", "such", "image">>}
      [] kind = "container" -> {<<"No", "such", "container">>, <<"not", "found">>}
      [] kind = "network" -> {<<"No", "such", "network">>, <<"not", "found">>}
      [] kind = "volume" -> {<<"no", "such", "volume">>, <<"not", "found">>}
      [] kind = "secret" -> {<<"No", "such", "secret">>, <<"secret", "not", "found">>}
      [] kind = "config" -> {<<"No", "such", "config">>, <<"config", "not", "found">>}
      [] kind = "service" -> {<<"No", "such", "service">>, <<"service", "not", "found">>}
      [] kind = "org_team_member" -> {<<"404">>}
      [] kind \in HubKinds \ {"org_team_member"} -> {<<"404">>, <<"not", "found">>}
      [] OTHER -> {}

\* the lookup of the Read that ran failed with a not-found text
NotFoundReported ==
    /\ todo.err # NoErr
    /\ \E ph \in NotFoundPhrases(plan.kind) : Contains(todo.err, ph)

\* the remote object is gone and Read's lookup said so: a not-found error, or for
\* compose a container list that succeeded and holds no container of the project
RemoteReportedGone ==
    /\ ~remote.exists
    /\ IF plan.kind = "compose" THEN todo.err = NoErr ELSE NotFoundReported

\* C5 (as amended): Read removes the resource, without an error, when the lookup fails
\* with a text its Read tests for, for every resource type except registry_image,
\* compose and org_team_member; registry_image keeps the prior state on "No such
\* image"; compose is never removed; org_team_member is removed exactly when the member
\* list was fetched and does not hold the user, and a failed list request is an error.
C5_ReadRemovesOnRecognisedNotFound ==
    pc = "done" =>
        /\ (plan.kind \in RemovingKinds /\ NotFoundReported) =>
                (tfstate = Null /\ ~HasError(diags))
        /\ (plan.kind = "registry_image" /\ NotFoundReported) =>
                (tfstate = plan.prior /\ ~HasError(diags))
        /\ plan.kind = "compose" => tfstate # Null
        /\ (plan.kind = "org_team_member" /\ plan.hubClient) =>
                /\ tfstate = Null <=> (todo.err = NoErr /\ ~todo.obj)
                /\ todo.err # NoErr => (tfstate = plan.prior /\ HasError(diags))

\* C5 witness: a container whose inspect failed with "... container x not found" was
\* removed from state
C5_ContainerRemovedOnNotFound ==
    /\ pc = "done"
    /\ plan.kind = "container"
    /\ ~remote.exists
    /\ todo.err = FromDaemon(<<"container", "x", "not", "found">>)
    /\ tfstate = Null

\* C5 (as stated): for every resource type, when the remote object is gone and the
\* lookup reports it, Read removes the resource from state.
C5_EveryReadRemovesGoneResource ==
    (pc = "done" /\ RemoteReportedGone) => tfstate = Null

\* C6: after a successful Read of a service, secret, config, network or volume that
\* stays in state, the labels in state equal the labels of the remote object.
C6_LabelsEqualRemoteLabels ==
    (pc = "done" /\ plan.kind \in LabelKinds /\ todo.err = NoErr /\ ~HasError(diags)) =>
        tfstate.labels = remote.labels


(***************************************************************************)
(* Properties of the container, image and registry image resources         *)
(***************************************************************************)
\* C11: with must_run true, after a successful Create, and after a Read or Update that
\* keeps the container in state, the remote container is running.
C11_MustRunContainerIsRunning ==
    (/\ todo \in {"create", "read", "update"}
     /\ ~HasError(diags)
     /\ tfstate # Null
     /\ tfstate.MustRun) => (remote.exists /\ remote.running)


\* C12: Delete makes no mutating call and leaves the remote object as it was when the
\* keep flag says keep; with the flag at its default, a container or image Delete that
\* returns without error leaves no such object on the daemon.
C12_DeleteHonoursKeepFlag ==
    pc = "done" =>
        /\ plan.prior.Keep => (calls = <<>> /\ remote = plan.before)
        /\ (/\ ~plan.prior.Keep
            /\ plan.prior.kind \in {"container", "image"}
            /\ ~HasError(diags)) => ~remote.exists

\* C12 witness: a running container with remove = true was stopped and removed
C12_RunningContainerRemoved ==
    /\ pc = "done"
    /\ plan.prior.kind = "container"
    /\ ~plan.prior.Keep
    /\ plan.before.running
    /\ ~HasError(diags)
    /\ calls = <<Call("ContainerStop", "c", TRUE, {}), Call("ContainerRemove", "c", TRUE, {})>>
    /\ ~remote.exists


(***************************************************************************)
(* Termination of the convergence wait                                     *)
(***************************************************************************)
\* C13: waitForConvergence terminates: Create or Update reaches its end, and once the
\* clock has reached the deadline no further inspect is issued.
C13_WaitTerminates ==
    /\ <>(pc = "done")
    /\ [][(pc = "converge" /\ clock >= todo.deadline) => calls' = calls]_vars

\* C13 witness: every inspect of the wait failed, at least two were made, and the
\* operation has returned
C13_ReturnedAfterFailedInspects ==
    /\ pc = "done"
    /\ Len(InspectsOf(calls)) >= 2
    /\ \A i \in 1..Len(calls) : calls[i].op = "ServiceInspect" => calls[i].name = "error"


(***************************************************************************)
(* Properties of provider configuration                                    *)
(***************************************************************************)
\* Docker Hub credentials as the documentation counts them: hub_username together
\* with hub_password, or hub_token
CredentialsSupplied ==
    \/ Effective(plan.hub_username) # "" /\ Effective(plan.hub_password) # ""
    \/ Effective(plan.hub_token) # ""

\* C14: when Docker Hub credentials are supplied, by the block or the environment, as
\* hub_username with hub_password or as hub_token alone, a Configure that ends without
\* error and without a failed login has built a Docker Hub client.
C14_HubClientBuiltFromCredentials ==
    (/\ pc = "configured"
     /\ CredentialsSupplied
     /\ "Docker Hub Authentication Failed" \notin diags.warnings) => todo.data.HubClient


\* the certificate settings the documentation asks for with tls_verify: a non-empty
\* cert_path, or ca_cert, cert and key all non-empty
CertificatesConfigured ==
    \/ Effective(plan.cert_path) # ""
    \/ \A c \in {plan.ca_cert, plan.cert, plan.key} : c \notin {NullString, ""}

\* C16: with tls_verify enabled, the Docker Engine client is built only if cert_path is
\* non-empty or ca_cert, cert and key are all non-empty; otherwise Configure fails with
\* 'Missing TLS Configuration', builds neither client and sets no provider data; and
\* when the validation passes createTLSHTTPClient never fails with 'TLS verification
\* enabled but no certificates provided'.
C16_TLSNeedsCertificates ==
    (pc # "configure" /\ tlsVerifyOf(plan)) =>
        /\ todo.data.DockerClient => CertificatesConfigured
        /\ ~CertificatesConfigured =>
            /\ diags.errors = {"Missing TLS Configuration"}
            /\ todo.data = NoProviderData
            /\ calls = <<>>
        /\ CertificatesConfigured =>
            todo.engineErr # "TLS verification enabled but no certificates provided"

\* tls_verify comes from DOCKER_TLS_VERIFY, the certificates are given as content only,
\* and the Engine client was built
C16_TLSClientBuiltFromContent ==
    /\ pc = "configured"
    /\ plan.tls_verify = [cfg |-> NullString, env |-> "1"]
    /\ Effective(plan.cert_path) = ""
    /\ todo.data.DockerClient


\* the login with hub_username and hub_password was refused
AuthenticationFailed == todo.login /\ ~todo.data.HubClient

\* the requests the operation after Configure sent
OperationRequests == SelectSeq(calls, LAMBDA c : c.op \in HubOps)

C17_NullSourceFailsBeforeAnyCall ==
    /\ [](plan.source = "null" =>
            /\ calls = <<>>
            /\ pc = "done" => HasError(diags)
            /\ pc \in {"create", "update", "done"})
    /\ [][plan.source = "null" =>
            /\ tfstate' = tfstate
            /\ containers' = containers /\ networks' = networks /\ volumes' = volumes]_vars

\* an Update without a compose source has returned; the stack of the prior state runs
C17_UpdateWithoutSourceReturned ==
    /\ pc = "done"
    /\ plan.source = "null"
    /\ tfstate # Null
    /\ \E s \in SvcNames : containers[s].running


(***************************************************************************)
(* Properties of the paginated data sources                                *)
(***************************************************************************)
\* the pages needed to see n items, page 1 being requested even for none
PagesNeeded(n, size) == IF n = 0 THEN 1 ELSE (n + size - 1) \div size

\* C18: when the remote collection does not change during the read, a paginated data
\* source ends; if no request failed its result holds every item exactly once in page
\* order; items are collected in page order throughout, and no page is requested once
\* the number collected has reached the reported count or a page came back empty.
C18_AllItemsOncePageLoopEnds ==
    /\ <>(pc = "done")
    /\ [](pc \in {"list", "done"} =>
            /\ todo.all = SubSeq(Collection(remote.items), 1, Len(todo.all))
            /\ Len(calls) <= PagesNeeded(remote.items, remote.pageSize)
            /\ (pc = "done" /\ ~HasError(diags)) =>
                    (tfstate # Null /\ tfstate.items = Collection(remote.items)))

\* five items were read in three pages of two
C18_ThreePagesRead ==
    /\ pc = "done"
    /\ ~HasError(diags)
    /\ remote = [items |-> 5, pageSize |-> 2]
    /\ Len(calls) = 3
    /\ tfstate.items = <<1, 2, 3, 4, 5>>


(***************************************************************************)
(* Properties of RegistryImage Create                                      *)
(***************************************************************************)
\* the messages of the output up to the first one with an error field
ErrorMessageIn(stream) == \E i \in 1..Len(stream) : stream[i] = "error"

\* C19: for every finite push output, lines that are not valid JSON included, the decode
\* loop ends and Create returns; an output holding a message with a non-empty error
\* field makes Create fail and write no state.
C19_PushOutputReadToCompletion ==
    /\ <>(pc = "done")
    /\ [](pc = "done" /\ ErrorMessageIn(plan.stream) /\ calls[1].ok =>
            (HasError(diags) /\ tfstate = Null))


(***************************************************************************)
(* Properties of error handling                                            *)
(***************************************************************************)
\* C20: within one Create or Update of a service no call that has failed is issued
\* again: after a failed call, no later call of the operation is the same SDK call.
C20_FailedCallNeverReissued ==
    \A i \in 1..Len(calls) :
        ~calls[i].ok => \A j \in (i + 1)..Len(calls) : calls[j].op # calls[i].op


(***************************************************************************)
(* Properties of the compose data source                                   *)
(***************************************************************************)
\* the services of the stack with at least one running container
RunningServiceNames ==
    {remote[i].service : i \in {j \in 1..Len(remote) :
        remote[j].service # "" /\ remote[j].State = "running"}}

\* C21: running_services of the compose data source is the number of distinct service
\* names with at least one running container, and so never exceeds total_services,
\* whatever the list of project containers, several containers per service included.
C21_RunningServicesCountsServices ==
    (pc = "done" /\ ~HasError(diags)) =>
        /\ tfstate.RunningServices = Cardinality(RunningServiceNames)
        /\ tfstate.RunningServices <= tfstate.TotalServices

=============================================================================
